---- MODULE Spec2Model ----
(***************************************************************************)
(* Booking Processing Service: the asynchronous file-processing pipeline.  *)
(*                                                                         *)
(* A task is created for an uploaded spreadsheet and a job is queued; a    *)
(* worker runs FileProcessor.process for the job: it streams the rows,     *)
(* normalises the cells, checks duplicates, validates, applies the         *)
(* reservation business rule, accumulates Error Items, writes the report   *)
(* and moves the task to a terminal status.                                *)
(*                                                                         *)
(* Representation.  A string is a TLA+ string; a string cell keeps its     *)
(* text as a sequence of tokens so that trim() has something to remove     *)
(* (the token " " is whitespace).  The reservation status literals are     *)
(* written in ASCII ("oczekujaca" for the source's 'oczekująca').          *)
(* A Date is the number of minutes after local midnight 1899-12-30 (the    *)
(* source counts milliseconds; minutes keep the products inside TLC's      *)
(* 32-bit integers); the process runs with a fixed-offset time zone.       *)
(***************************************************************************)
EXTENDS Integers, Sequences, FiniteSets, TLC

(***************************************************************************)
(* Enumerations                                                            *)
(***************************************************************************)
TaskStatus == [PENDING |-> "PENDING", IN_PROGRESS |-> "IN_PROGRESS",
               COMPLETED |-> "COMPLETED", FAILED |-> "FAILED"]

ReservationStatus == [PENDING |-> "oczekujaca", COMPLETED |-> "zrealizowana",
                      CANCELLED |-> "anulowana"]

ReservationStatusValues ==
    {ReservationStatus.PENDING, ReservationStatus.COMPLETED,
     ReservationStatus.CANCELLED}

ReportErrorCode == [MISSING_FIELD |-> "MISSING_FIELD",
                    INVALID_DATE |-> "INVALID_DATE",
                    INVALID_STATUS |-> "INVALID_STATUS",
                    CHECKOUT_BEFORE_CHECKIN |-> "CHECKOUT_BEFORE_CHECKIN",
                    DUPLICATE |-> "DUPLICATE",
                    UNKNOWN |-> "UNKNOWN"]

COLUMN_MAP == [reservation_id |-> 1, guest_name |-> 2, status |-> 3,
               check_in_date |-> 4, check_out_date |-> 5]

PROGRESS_EMIT_INTERVAL == 100

\* defaultJobOptions.attempts
attempts == 3

(***************************************************************************)
(* Cell values (ExcelJS.CellValue).  Every cell carries the three fields   *)
(* k (the shape), s (tokens or text runs) and n (a number).                *)
(***************************************************************************)
NullCell == [k |-> "null", s |-> <<>>, n |-> 0]
StrCell(toks) == [k |-> "string", s |-> toks, n |-> 0]
NumCell(v) == [k |-> "number", s |-> <<>>, n |-> v]
BoolCell(b) == [k |-> "boolean", s |-> <<>>, n |-> IF b THEN 1 ELSE 0]
DateCell(ms) == [k |-> "date", s |-> <<>>, n |-> ms]
RichCell(runs) == [k |-> "richText", s |-> runs, n |-> 0]
\* a formula, hyperlink or error value
ObjCell == [k |-> "object", s |-> <<>>, n |-> 0]

(***************************************************************************)
(* String helpers: String.prototype.trim, Array.prototype.join('') and     *)
(* String.prototype.padStart(2, '0').                                      *)
(***************************************************************************)
RECURSIVE Join(_)
Join(toks) == IF toks = <<>> THEN "" ELSE Head(toks) \o Join(Tail(toks))

RECURSIVE TrimStart(_)
TrimStart(toks) ==
    IF toks # <<>> /\ Head(toks) = " " THEN TrimStart(Tail(toks)) ELSE toks

RECURSIVE TrimEnd(_)
TrimEnd(toks) ==
    IF toks # <<>> /\ toks[Len(toks)] = " "
    THEN TrimEnd(SubSeq(toks, 1, Len(toks) - 1)) ELSE toks

Trim(toks) == Join(TrimEnd(TrimStart(toks)))

PadStart2(v) == IF v < 10 THEN "0" \o ToString(v) ELSE ToString(v)

(***************************************************************************)
(* Dates                                                                   *)
(***************************************************************************)
\* A Date is its time value in minutes, counted from 1899-12-30T00:00Z.
\* The time zone of the process (TZ) is its offset from UTC in minutes, east
\* positive: `before' is the offset in force on 1899-12-30, `after' the one
\* in force from the instant `since' on.
VARIABLE zone

UTC == [before |-> 0, after |-> 0, since |-> 0]

\* minus Date.getTimezoneOffset()
LocalOffset(date) == IF date < zone.since THEN zone.before ELSE zone.after

\* 24 * 60 * 60 * 1000 ms, in minutes
msPerDay == 24 * 60

\* Days from 0000-03-01 to 1899-12-30 (proleptic Gregorian calendar).
EpochShift == 693899

\* Date.getFullYear / getMonth + 1 / getDate of a Date, as <<y, m, d>>: the
\* civil date of a day number, computed era by era (400 years), then the year
\* of the era, the day of the year (from March 1st) and the month.
CivilOfMonth(era, yoe, doy, mp) ==
    <<yoe + era * 400 + (IF mp < 10 THEN 0 ELSE 1),
      IF mp < 10 THEN mp + 3 ELSE mp - 9,
      doy - ((153 * mp + 2) \div 5) + 1>>

CivilOfDayOfYear(era, yoe, doy) ==
    CivilOfMonth(era, yoe, doy, (5 * doy + 2) \div 153)

CivilOfYear(era, doe, yoe) ==
    CivilOfDayOfYear(era, yoe,
                     doe - (365 * yoe + (yoe \div 4) - (yoe \div 100)))

CivilOfDayOfEra(era, doe) ==
    CivilOfYear(era, doe,
                (doe - (doe \div 1460) + (doe \div 36524)
                     - (doe \div 146096)) \div 365)

CivilOfDay(z) == CivilOfDayOfEra(z \div 146097, z % 146097)

CivilDate(date) == CivilOfDay((date \div msPerDay) + EpochShift)

\* `${year}-${month}-${day}` with month and day padded to two digits
formatYmd(c) ==
    ToString(c[1]) \o "-" \o PadStart2(c[2]) \o "-" \o PadStart2(c[3])

\* Date.getFullYear, getMonth and getDate read the local time of a Date
formatDate(date) == formatYmd(CivilDate(date + LocalOffset(date)))

\* new Date(1899, 11, 30): midnight of 1899-12-30 in local time
excelEpoch == 0 - zone.before

excelDateToJSDate(excelDate) == excelEpoch + excelDate * msPerDay

(***************************************************************************)
(* Cell Normalizer                                                         *)
(***************************************************************************)
normalizeValue(value) ==
    CASE value.k = "null"     -> ""
      [] value.k = "string"   -> Trim(value.s)
      [] value.k = "number"   -> ToString(value.n)
      [] value.k = "boolean"  -> (IF value.n = 1 THEN "true" ELSE "false")
      [] value.k = "date"     -> formatDate(value.n)
      [] value.k = "richText" -> Join(value.s)
      [] OTHER                -> ""

normalizeDate(value) ==
    CASE value.k = "null"   -> ""
      [] value.k = "date"   -> formatDate(value.n)
      [] value.k = "string" -> Trim(value.s)
      [] value.k = "number" -> formatDate(excelDateToJSDate(value.n))
      [] OTHER              -> ""

\* row: the five cells of a spreadsheet row, by column.
mapRowToDto(row) ==
    [reservationId |-> normalizeValue(row[COLUMN_MAP.reservation_id]),
     guestName     |-> normalizeValue(row[COLUMN_MAP.guest_name]),
     status        |-> normalizeValue(row[COLUMN_MAP.status]),
     checkInDate   |-> normalizeDate(row[COLUMN_MAP.check_in_date]),
     checkOutDate  |-> normalizeDate(row[COLUMN_MAP.check_out_date])]

(***************************************************************************)
(* Date strings.  The calendar days the model's files use are KnownDays    *)
(* (2024-05-01 .. 2024-05-07, as day numbers after 1899-12-30); besides    *)
(* the YYYY-MM-DD strings of these days the files use two literals:        *)
(*   "Not a date"  - no ISO 8601 form, new Date gives Invalid Date;        *)
(*   "May 7, 2024" - no ISO 8601 form, but new Date parses it.             *)
(***************************************************************************)
KnownDays == 45413 .. 45419

\* the time value of an Invalid Date
NaN == -1

\* the YYYY-MM-DD string of a day number
YmdOfDay(day) == formatYmd(CivilDate(day * msPerDay))

IsKnownYmd(str) == \E day \in KnownDays : YmdOfDay(day) = str

\* new Date(str): a Date, or NaN for an Invalid Date
NewDate(str) ==
    IF IsKnownYmd(str)
    THEN (CHOOSE day \in KnownDays : YmdOfDay(day) = str) * msPerDay
    ELSE IF str = "May 7, 2024" THEN 45419 * msPerDay
    ELSE NaN

\* class-validator IsDateString: the string has an ISO 8601 form
isDateString(str) == IsKnownYmd(str)

\* class-validator IsNotEmpty
isNotEmpty(str) == str # ""

\* class-validator IsEnum(ReservationStatus)
isEnum(str) == str \in ReservationStatusValues

(***************************************************************************)
(* Row Validator (ReservationRowDto and IsCheckOutAfterCheckIn)            *)
(***************************************************************************)
isCheckOutAfterCheckIn(checkOutDate, obj) ==
    IF obj.checkInDate = "" \/ checkOutDate = "" THEN TRUE
    ELSE LET checkIn  == NewDate(obj.checkInDate)
             checkOut == NewDate(checkOutDate)
         IN  \* a comparison with an Invalid Date is false
             checkIn # NaN /\ checkOut # NaN /\ checkOut > checkIn

DtoProperties ==
    <<"reservationId", "guestName", "status", "checkInDate", "checkOutDate">>

\* The names of the constraints of ReservationRowDto that a property of dto
\* violates (IsString never fails: the normalizer only produces strings).
ReservationRowDto(dto, property) ==
    CASE property = "reservationId" ->
           {c \in {"isNotEmpty"} : ~isNotEmpty(dto.reservationId)}
      [] property = "guestName" ->
           {c \in {"isNotEmpty"} : ~isNotEmpty(dto.guestName)}
      [] property = "status" ->
           {c \in {"isEnum"} : ~isEnum(dto.status)}
           \cup {c \in {"isNotEmpty"} : ~isNotEmpty(dto.status)}
      [] property = "checkInDate" ->
           {c \in {"isDateString"} : ~isDateString(dto.checkInDate)}
           \cup {c \in {"isNotEmpty"} : ~isNotEmpty(dto.checkInDate)}
      [] property = "checkOutDate" ->
           {c \in {"isDateString"} : ~isDateString(dto.checkOutDate)}
           \cup {c \in {"isNotEmpty"} : ~isNotEmpty(dto.checkOutDate)}
           \cup {c \in {"isCheckOutAfterCheckIn"} :
                    ~isCheckOutAfterCheckIn(dto.checkOutDate, dto)}

\* Variant: validation stops at the first violating property.
validate_FirstOnly(dto) ==
    LET all == [i \in 1 .. Len(DtoProperties) |->
                   [property    |-> DtoProperties[i],
                    constraints |-> ReservationRowDto(dto, DtoProperties[i])]]
        bad == SelectSeq(all, LAMBDA e : e.constraints # {})
    IN  IF bad = <<>> THEN bad ELSE <<bad[1]>>

\* class-validator validate(dto): one ValidationError per violating property,
\* in declaration order, carrying every violated constraint of the property.
validate(dto) ==
    LET all == [i \in 1 .. Len(DtoProperties) |->
                   [property    |-> DtoProperties[i],
                    constraints |-> ReservationRowDto(dto, DtoProperties[i])]]
    IN  SelectSeq(all, LAMBDA e : e.constraints # {})

\* Variant: the emptiness constraint is looked at first.
mapConstraintToErrorCode_NotEmptyFirst(error) ==
    LET constraints == error.constraints
    IN  IF "isNotEmpty" \in constraints THEN ReportErrorCode.MISSING_FIELD
        ELSE IF "isEnum" \in constraints
             THEN ReportErrorCode.INVALID_STATUS
        ELSE IF "isDateString" \in constraints
             THEN ReportErrorCode.INVALID_DATE
        ELSE IF "isCheckOutAfterCheckIn" \in constraints
             THEN ReportErrorCode.CHECKOUT_BEFORE_CHECKIN
        ELSE ReportErrorCode.UNKNOWN

mapConstraintToErrorCode(error) ==
    LET constraints == error.constraints
    IN  IF "isEnum" \in constraints THEN ReportErrorCode.INVALID_STATUS
        ELSE IF "isDateString" \in constraints
             THEN ReportErrorCode.INVALID_DATE
        ELSE IF "isNotEmpty" \in constraints
             THEN ReportErrorCode.MISSING_FIELD
        ELSE IF "isCheckOutAfterCheckIn" \in constraints
             THEN ReportErrorCode.CHECKOUT_BEFORE_CHECKIN
        ELSE ReportErrorCode.UNKNOWN

mapValidationErrors(row, errors) ==
    [i \in 1 .. Len(errors) |->
        [row   |-> row,
         code  |-> mapConstraintToErrorCode(errors[i]),
         field |-> errors[i].property]]

(***************************************************************************)
(* Error Reporter                                                          *)
(***************************************************************************)
\* Variant: an UNKNOWN item's own message is ignored.
mapError_DropsMessage(error) ==
    CASE error.code = ReportErrorCode.MISSING_FIELD ->
           [row        |-> error.row,
            reason     |-> "Missing required field: " \o error.field,
            suggestion |-> "Provide value for field \"" \o error.field
                               \o "\""]
      [] error.code = ReportErrorCode.INVALID_DATE ->
           [row        |-> error.row,
            reason     |-> "Invalid date format in field: " \o error.field,
            suggestion |-> "Use YYYY-MM-DD format"]
      [] error.code = ReportErrorCode.INVALID_STATUS ->
           [row        |-> error.row,
            reason     |-> "Invalid reservation status",
            suggestion |-> "Use one of allowed values: oczekujaca, zrealizowana, anulowana"]
      [] error.code = ReportErrorCode.CHECKOUT_BEFORE_CHECKIN ->
           [row        |-> error.row,
            reason     |-> "Check-out date is before check-in date",
            suggestion |-> "Ensure check-out date is after check-in date"]
      [] error.code = ReportErrorCode.DUPLICATE ->
           [row        |-> error.row,
            reason     |-> "Duplicate reservation ID: " \o error.field,
            suggestion |-> "Remove duplicate entry or use unique reservation ID"]
      [] OTHER ->
           [row        |-> error.row,
            reason     |-> "Unknown error",
            suggestion |-> "Verify row data"]

mapError(error) ==
    CASE error.code = ReportErrorCode.MISSING_FIELD ->
           [row        |-> error.row,
            reason     |-> "Missing required field: " \o error.field,
            suggestion |-> "Provide value for field \"" \o error.field
                               \o "\""]
      [] error.code = ReportErrorCode.INVALID_DATE ->
           [row        |-> error.row,
            reason     |-> "Invalid date format in field: " \o error.field,
            suggestion |-> "Use YYYY-MM-DD format"]
      [] error.code = ReportErrorCode.INVALID_STATUS ->
           [row        |-> error.row,
            reason     |-> "Invalid reservation status",
            suggestion |-> "Use one of allowed values: oczekujaca, zrealizowana, anulowana"]
      [] error.code = ReportErrorCode.CHECKOUT_BEFORE_CHECKIN ->
           [row        |-> error.row,
            reason     |-> "Check-out date is before check-in date",
            suggestion |-> "Ensure check-out date is after check-in date"]
      [] error.code = ReportErrorCode.DUPLICATE ->
           [row        |-> error.row,
            reason     |-> "Duplicate reservation ID: " \o error.field,
            suggestion |-> "Remove duplicate entry or use unique reservation ID"]
      [] OTHER ->
           [row        |-> error.row,
            reason     |-> IF "message" \in DOMAIN error THEN error.message
                           ELSE "Unknown error",
            suggestion |-> "Verify row data"]

\* Variant: an empty list also gets a report file.
generateReport_AlwaysWrites(taskId, rawErrors) ==
    [path  |-> "reports/" \o taskId \o "-report.json",
     items |-> [i \in 1 .. Len(rawErrors) |-> mapError(rawErrors[i])]]

\* the path and the items of generateReport; the write itself is part of the
\* actions that call it
generateReport(taskId, rawErrors) ==
    IF Len(rawErrors) = 0 THEN [path |-> "", items |-> <<>>]
    ELSE [path  |-> "reports/" \o taskId \o "-report.json",
          items |-> [i \in 1 .. Len(rawErrors) |-> mapError(rawErrors[i])]]

(***************************************************************************)
(* Reservation store operations (ReservationsService).  The store maps the *)
(* reservation keys that have a record to the record.                      *)
(***************************************************************************)
findByReservationId(st, reservationId) == reservationId \in DOMAIN st

\* Variant: an existing record is kept as it is (insert only).
upsert_InsertOnly(st, dto) ==
    [k \in DOMAIN st \cup {dto.reservationId} |->
        IF k \in DOMAIN st
        THEN st[k]
        ELSE [guestName    |-> dto.guestName,
              status       |-> dto.status,
              checkInDate  |-> NewDate(dto.checkInDate),
              checkOutDate |-> NewDate(dto.checkOutDate)]]

upsert(st, dto) ==
    [k \in DOMAIN st \cup {dto.reservationId} |->
        IF k = dto.reservationId
        THEN [guestName    |-> dto.guestName,
              status       |-> dto.status,
              checkInDate  |-> NewDate(dto.checkInDate),
              checkOutDate |-> NewDate(dto.checkOutDate)]
        ELSE st[k]]

\* ReservationsService.updateStatus: findOneAndUpdate without upsert
updateReservationStatus(st, reservationId, status) ==
    [k \in DOMAIN st |->
        IF k = reservationId THEN [st[k] EXCEPT !.status = status]
        ELSE st[k]]

\* Variant: the cancelled status is forgotten.
isCancelledOrCompleted_OnlyCompleted(dto) ==
    dto.status = ReservationStatus.COMPLETED

isCancelledOrCompleted(dto) ==
    dto.status = ReservationStatus.CANCELLED
        \/ dto.status = ReservationStatus.COMPLETED

\* ReservationsService.processReservation run without interruption on the
\* store st: the store it leaves, the number of writes it issued and the
\* boolean it resolves to
processReservation(st, dto) ==
    IF isCancelledOrCompleted(dto)
    THEN IF findByReservationId(st, dto.reservationId)
         THEN [store  |-> updateReservationStatus(st, dto.reservationId,
                                                  dto.status),
               writes |-> 1,
               result |-> TRUE]
         ELSE [store |-> st, writes |-> 0, result |-> FALSE]
    ELSE [store |-> upsert(st, dto), writes |-> 1, result |-> TRUE]


(***************************************************************************)
(* State                                                                   *)
(***************************************************************************)
VARIABLES
    tasks,         \* task store: task id -> [filePath, status (, reportPath)]
    jobs,          \* queue: job id -> [taskId, state, attemptsMade, owner]
    exec,          \* worker slot -> the locals of its process() invocation
    reservations,  \* reservation store: reservation key -> record
    reports,       \* report artifacts on disk: path -> report items
    events,        \* notifier: task id -> the events emitted for the task
    disk,          \* uploaded files: path -> file
    inbox,         \* the files clients are still going to upload
    creating,      \* id of the task createTask has saved but not yet queued
    faults,        \* store/disk/queue operations that are still going to fail
    stalls,        \* job locks that are still going to expire
    guard          \* ApiKeyGuard: the configured key and its decisions

vars == <<tasks, jobs, exec, reservations, reports, events, disk, inbox,
          creating, faults, stalls, guard, zone>>

Workers == DOMAIN exec

NoDto == [reservationId |-> "", guestName |-> "", status |-> "",
          checkInDate |-> "", checkOutDate |-> ""]

\* A worker slot that runs no job.
IdleExec ==
    [pc |-> "idle", job |-> "", taskId |-> "", filePath |-> "",
     rawErrors |-> <<>>, seenReservationIds |-> {}, processedRows |-> 0,
     ws |-> 1, rn |-> 0, nread |-> 0, dto |-> NoDto, rowNumber |-> 0,
     reportPath |-> "", rowlog |-> <<>>]

(***************************************************************************)
(* Files.  A file is its worksheets, each the sequence of its rows (a row  *)
(* is its five cells; row.number is the row's index in the worksheet), and *)
(* whether the stream breaks: a corrupt file throws when the row after its *)
(* first goodRows rows is requested (goodRows = 0: it cannot be opened).   *)
(***************************************************************************)
File(sheets) == [sheets |-> sheets, corrupt |-> FALSE, goodRows |-> 0]
CorruptFile(sheets, goodRows) ==
    [sheets |-> sheets, corrupt |-> TRUE, goodRows |-> goodRows]

\* The position <<worksheet, row>> of the row that follows the rn-th row of
\* worksheet ws, or <<0, 0>> at the end of the workbook.
RECURSIVE NextPos(_, _, _)
NextPos(file, ws, rn) ==
    IF ws > Len(file.sheets) THEN <<0, 0>>
    ELSE IF rn < Len(file.sheets[ws]) THEN <<ws, rn + 1>>
    ELSE NextPos(file, ws + 1, 0)

StreamBreaks(e) == disk[e.filePath].corrupt
                       /\ e.nread = disk[e.filePath].goodRows

\* The next row of the stream of worker w.
Pos(w) == NextPos(disk[exec[w].filePath], exec[w].ws, exec[w].rn)
AtRow(w) == exec[w].pc = "stream" /\ ~StreamBreaks(exec[w]) /\ Pos(w)[1] # 0
\* Variant: the header flag is not reset for the worksheets after the first.
AtDataRow_HeaderOnce(w) == AtRow(w) /\ (Pos(w)[2] > 1 \/ Pos(w)[1] > 1)

AtDataRow(w) == AtRow(w) /\ Pos(w)[2] > 1
RowCells(w) == disk[exec[w].filePath].sheets[Pos(w)[1]][Pos(w)[2]]

(***************************************************************************)
(* Notifier (TasksGateway) and task store (TasksService)                   *)
(***************************************************************************)
Emit(ev, taskId, update) ==
    [t \in DOMAIN ev \cup {taskId} |->
        IF t = taskId
        THEN Append(IF t \in DOMAIN ev THEN ev[t] ELSE <<>>, update)
        ELSE ev[t]]

emitProgress(ev, taskId, processedRows, errorCount) ==
    IF processedRows % PROGRESS_EMIT_INTERVAL = 0
    THEN Emit(ev, taskId, [type |-> "progress",
                           processedRows |-> processedRows,
                           errorCount |-> errorCount])
    ELSE ev

\* findByIdAndUpdate(taskId, {status}): no task is created when none exists
updateStatus(ts, taskId, status) ==
    [t \in DOMAIN ts |->
        IF t = taskId THEN [ts[t] EXCEPT !.status = status] ELSE ts[t]]

\* findByIdAndUpdate(taskId, {status, reportPath})
completeTask(ts, taskId, status, reportPath) ==
    [t \in DOMAIN ts |->
        IF t = taskId
        THEN [filePath |-> ts[t].filePath, status |-> status,
              reportPath |-> reportPath]
        ELSE ts[t]]

SetExec(w, e) == exec' = [exec EXCEPT ![w] = e]


(***************************************************************************)
(* TasksService.createTask: save the task, then add the job to the queue.  *)
(***************************************************************************)
\* Variant: the job is put into the queue first, the task is not yet saved.
createTaskSave_QueuesFirst ==
    /\ creating = ""
    /\ inbox # <<>>
    /\ LET taskId   == "t" \o ToString(Cardinality(DOMAIN tasks) + 1)
           filePath == "uploads/" \o taskId \o ".xlsx"
       IN  /\ disk' = [p \in DOMAIN disk \cup {filePath} |->
                          IF p = filePath THEN Head(inbox) ELSE disk[p]]
           /\ jobs' = [j \in DOMAIN jobs \cup {taskId} |->
                          IF j = taskId
                          THEN [taskId |-> taskId, state |-> "wait",
                                attemptsMade |-> 0, owner |-> ""]
                          ELSE jobs[j]]
           /\ creating' = taskId
    /\ inbox' = Tail(inbox)
    /\ UNCHANGED <<tasks, exec, reservations, reports, events, faults,
                   stalls, guard, zone>>

createTaskSave ==
    /\ creating = ""
    /\ inbox # <<>>
    /\ LET taskId   == "t" \o ToString(Cardinality(DOMAIN tasks) + 1)
           filePath == "uploads/" \o taskId \o ".xlsx"
       IN  /\ disk' = [p \in DOMAIN disk \cup {filePath} |->
                          IF p = filePath THEN Head(inbox) ELSE disk[p]]
           /\ tasks' = [t \in DOMAIN tasks \cup {taskId} |->
                           IF t = taskId
                           THEN [filePath |-> filePath,
                                 status   |-> TaskStatus.PENDING]
                           ELSE tasks[t]]
           /\ creating' = taskId
    /\ inbox' = Tail(inbox)
    /\ UNCHANGED <<jobs, exec, reservations, reports, events, faults, stalls,
                   guard, zone>>

createTaskAdd ==
    /\ creating # ""
    /\ jobs' = [j \in DOMAIN jobs \cup {creating} |->
                   IF j = creating
                   THEN [taskId |-> creating, state |-> "wait",
                         attemptsMade |-> 0, owner |-> ""]
                   ELSE jobs[j]]
    /\ creating' = ""
    /\ UNCHANGED <<tasks, exec, reservations, reports, events, disk, inbox,
                   faults, stalls, guard, zone>>

\* task.save() or tasksQueue.add() rejects: createTask throws
createTaskThrows ==
    /\ faults > 0
    /\ faults' = faults - 1
    /\ \/ creating = "" /\ inbox # <<>> /\ inbox' = Tail(inbox)
             /\ UNCHANGED creating
       \/ creating # "" /\ creating' = "" /\ UNCHANGED inbox
    /\ UNCHANGED <<tasks, jobs, exec, reservations, reports, events, disk,
                   stalls, guard, zone>>

(***************************************************************************)
(* The queue hands a waiting job to a free worker slot, which starts       *)
(* FileProcessor.process with fresh locals.                                *)
(***************************************************************************)
\* Variant: the seen-key set and the error list are fields shared by all
\* invocations instead of locals of process().
Deliver_SharedLocals(w, j) ==
    /\ exec[w].pc = "idle"
    /\ jobs[j].state = "wait"
    /\ jobs' = [jobs EXCEPT ![j].state = "active", ![j].owner = w]
    /\ SetExec(w, [IdleExec EXCEPT
           !.pc = "findById", !.job = j, !.taskId = jobs[j].taskId,
           !.seenReservationIds =
               UNION {exec[v].seenReservationIds : v \in Workers}])
    /\ UNCHANGED <<tasks, reservations, reports, events, disk, inbox,
                   creating, faults, stalls, guard, zone>>

Deliver(w, j) ==
    /\ exec[w].pc = "idle"
    /\ jobs[j].state = "wait"
    /\ jobs' = [jobs EXCEPT ![j].state = "active", ![j].owner = w]
    /\ SetExec(w, [IdleExec EXCEPT !.pc = "findById", !.job = j,
                                   !.taskId = jobs[j].taskId])
    /\ UNCHANGED <<tasks, reservations, reports, events, disk, inbox,
                   creating, faults, stalls, guard, zone>>

\* Variant: the IN_PROGRESS status event is sent before the task is checked.
FindTask_StatusFirst(w) ==
    LET e == exec[w] IN
    /\ e.pc = "findById"
    /\ events' = Emit(events, e.taskId,
                      [type |-> "status", status |-> TaskStatus.IN_PROGRESS])
    /\ IF e.taskId \in DOMAIN tasks
       THEN SetExec(w, [e EXCEPT !.pc = "updateStatus",
                                 !.filePath = tasks[e.taskId].filePath])
       ELSE SetExec(w, [e EXCEPT !.pc = "returned"])
    /\ UNCHANGED <<tasks, jobs, reservations, reports, disk, inbox,
                   creating, faults, stalls, guard, zone>>

\* const task = await findById(taskId); if (!task) return;
\* Variant: the row stream is opened without the IN_PROGRESS update.
FindTask_SkipsStart(w) ==
    LET e == exec[w] IN
    /\ e.pc = "findById"
    /\ IF e.taskId \in DOMAIN tasks
       THEN SetExec(w, [e EXCEPT !.pc = "stream",
                                 !.filePath = tasks[e.taskId].filePath])
       ELSE SetExec(w, [e EXCEPT !.pc = "returned"])
    /\ UNCHANGED <<tasks, jobs, reservations, reports, events, disk, inbox,
                   creating, faults, stalls, guard, zone>>

FindTask(w) ==
    LET e == exec[w] IN
    /\ e.pc = "findById"
    /\ IF e.taskId \in DOMAIN tasks
       THEN SetExec(w, [e EXCEPT !.pc = "updateStatus",
                                 !.filePath = tasks[e.taskId].filePath])
       ELSE SetExec(w, [e EXCEPT !.pc = "returned"])
    /\ UNCHANGED <<tasks, jobs, reservations, reports, events, disk, inbox,
                   creating, faults, stalls, guard, zone>>

\* await updateStatus(taskId, IN_PROGRESS)
StartTask(w) ==
    LET e == exec[w] IN
    /\ e.pc = "updateStatus"
    /\ tasks' = updateStatus(tasks, e.taskId, TaskStatus.IN_PROGRESS)
    /\ events' = Emit(events, e.taskId,
                      [type |-> "status", status |-> TaskStatus.IN_PROGRESS])
    /\ SetExec(w, [e EXCEPT !.pc = "stream"])
    /\ UNCHANGED <<jobs, reservations, reports, disk, inbox, creating,
                   faults, stalls, guard, zone>>

(***************************************************************************)
(* The row loop                                                            *)
(***************************************************************************)
\* the workbook cannot be opened or the stream throws: outer catch
StreamThrows(w) ==
    LET e == exec[w] IN
    /\ e.pc = "stream"
    /\ StreamBreaks(e)
    /\ SetExec(w, [e EXCEPT !.pc = "catchReport"])
    /\ UNCHANGED <<tasks, jobs, reservations, reports, events, disk, inbox,
                   creating, faults, stalls, guard, zone>>

\* if (header) { header = false; continue; }
SkipHeader(w) ==
    LET e == exec[w] IN
    /\ AtRow(w)
    /\ Pos(w)[2] = 1
    /\ SetExec(w, [e EXCEPT !.ws = Pos(w)[1], !.rn = 1,
                            !.nread = e.nread + 1])
    /\ UNCHANGED <<tasks, jobs, reservations, reports, events, disk, inbox,
                   creating, faults, stalls, guard, zone>>

\* The locals after the next data row was read, counted and mapped.
ReadRow(w) ==
    [exec[w] EXCEPT !.ws = Pos(w)[1], !.rn = Pos(w)[2],
                    !.nread = exec[w].nread + 1,
                    !.processedRows = exec[w].processedRows + 1,
                    !.rowNumber = Pos(w)[2],
                    !.dto = mapRowToDto(RowCells(w))]

\* Variant: a key that has a record in the store counts as seen.
isDuplicate_InStore(e) ==
    e.dto.reservationId # ""
        /\ (e.dto.reservationId \in e.seenReservationIds
                \/ e.dto.reservationId \in DOMAIN reservations)

\* Variant: the seen-set is asked about the guest name.
isDuplicate_WrongField(e) ==
    e.dto.reservationId # ""
        /\ e.dto.guestName \in e.seenReservationIds

\* Variant: the empty key counts as seen after the first row without a key.
isDuplicate_EmptyKeysClash(e) ==
    \/ e.dto.reservationId \in e.seenReservationIds
    \/ /\ e.dto.reservationId = ""
       /\ \E i \in 1 .. Len(e.rowlog) : e.rowlog[i].dto.reservationId = ""

isDuplicate(e) ==
    e.dto.reservationId # ""
        /\ e.dto.reservationId \in e.seenReservationIds

LogRow(e, passed, first, last) ==
    Append(e.rowlog, [ws |-> e.ws, number |-> e.rowNumber, dto |-> e.dto,
                      passed |-> passed, first |-> first, last |-> last])

\* Variant: a duplicate row ends the row loop.
RowDuplicate_Aborts(w) ==
    /\ AtDataRow(w)
    /\ LET e == ReadRow(w)
           rawErrors == Append(e.rawErrors,
                               [row   |-> e.rowNumber,
                                code  |-> ReportErrorCode.DUPLICATE,
                                field |-> e.dto.reservationId])
       IN  /\ isDuplicate(e)
           /\ events' = emitProgress(events, e.taskId, e.processedRows,
                                     Len(rawErrors))
           /\ SetExec(w, [e EXCEPT
                  !.pc = "generateReport",
                  !.rawErrors = rawErrors,
                  !.rowlog = LogRow(e, FALSE, Len(rawErrors),
                                    Len(rawErrors))])
    /\ UNCHANGED <<tasks, jobs, reservations, reports, disk, inbox, creating,
                   faults, stalls, guard, zone>>

\* the key was already seen: one DUPLICATE item, progress, continue
RowDuplicate(w) ==
    /\ AtDataRow(w)
    /\ LET e == ReadRow(w)
           rawErrors == Append(e.rawErrors,
                               [row   |-> e.rowNumber,
                                code  |-> ReportErrorCode.DUPLICATE,
                                field |-> e.dto.reservationId])
       IN  /\ isDuplicate(e)
           /\ events' = emitProgress(events, e.taskId, e.processedRows,
                                     Len(rawErrors))
           /\ SetExec(w, [e EXCEPT
                  !.rawErrors = rawErrors,
                  !.rowlog = LogRow(e, FALSE, Len(rawErrors),
                                    Len(rawErrors))])
    /\ UNCHANGED <<tasks, jobs, reservations, reports, disk, inbox, creating,
                   faults, stalls, guard, zone>>

\* Variant: the key is remembered before the row is validated.
RowInvalid_TracksKey(w) ==
    /\ AtDataRow(w)
    /\ LET e == ReadRow(w)
           validationErrors == validate(e.dto)
           rawErrors == e.rawErrors
                            \o mapValidationErrors(e.rowNumber,
                                                   validationErrors)
       IN  /\ ~isDuplicate(e)
           /\ Len(validationErrors) > 0
           /\ events' = emitProgress(events, e.taskId, e.processedRows,
                                     Len(rawErrors))
           /\ SetExec(w, [e EXCEPT
                  !.seenReservationIds = @ \cup {e.dto.reservationId},
                  !.rawErrors = rawErrors,
                  !.rowlog = LogRow(e, FALSE, Len(e.rawErrors) + 1,
                                    Len(rawErrors))])
    /\ UNCHANGED <<tasks, jobs, reservations, reports, disk, inbox, creating,
                   faults, stalls, guard, zone>>

\* Variant: the validation branch continues without the progress call.
RowInvalid_SkipsProgress(w) ==
    /\ AtDataRow(w)
    /\ LET e == ReadRow(w)
           validationErrors == validate(e.dto)
           rawErrors == e.rawErrors
                            \o mapValidationErrors(e.rowNumber,
                                                   validationErrors)
       IN  /\ ~isDuplicate(e)
           /\ Len(validationErrors) > 0
           /\ UNCHANGED events
           /\ SetExec(w, [e EXCEPT
                  !.rawErrors = rawErrors,
                  !.rowlog = LogRow(e, FALSE, Len(e.rawErrors) + 1,
                                    Len(rawErrors))])
    /\ UNCHANGED <<tasks, jobs, reservations, reports, disk, inbox, creating,
                   faults, stalls, guard, zone>>

\* validation errors: one item per violating property, progress, continue
\* Variant: field validation runs before the duplicate check.
RowInvalid_ValidatesFirst(w) ==
    /\ AtDataRow(w)
    /\ LET e == ReadRow(w)
           validationErrors == validate(e.dto)
           rawErrors == e.rawErrors
                            \o mapValidationErrors(e.rowNumber,
                                                   validationErrors)
       IN  /\ Len(validationErrors) > 0
           /\ events' = emitProgress(events, e.taskId, e.processedRows,
                                     Len(rawErrors))
           /\ SetExec(w, [e EXCEPT
                  !.rawErrors = rawErrors,
                  !.rowlog = LogRow(e, FALSE, Len(e.rawErrors) + 1,
                                    Len(rawErrors))])
    /\ UNCHANGED <<tasks, jobs, reservations, reports, disk, inbox, creating,
                   faults, stalls, guard, zone>>

RowInvalid(w) ==
    /\ AtDataRow(w)
    /\ LET e == ReadRow(w)
           validationErrors == validate(e.dto)
           rawErrors == e.rawErrors
                            \o mapValidationErrors(e.rowNumber,
                                                   validationErrors)
       IN  /\ ~isDuplicate(e)
           /\ Len(validationErrors) > 0
           /\ events' = emitProgress(events, e.taskId, e.processedRows,
                                     Len(rawErrors))
           /\ SetExec(w, [e EXCEPT
                  !.rawErrors = rawErrors,
                  !.rowlog = LogRow(e, FALSE, Len(e.rawErrors) + 1,
                                    Len(rawErrors))])
    /\ UNCHANGED <<tasks, jobs, reservations, reports, disk, inbox, creating,
                   faults, stalls, guard, zone>>

\* Variant: processReservation(dto) is started but not awaited.
RowValid_NotAwaited(w) ==
    /\ AtDataRow(w)
    /\ LET e == ReadRow(w)
       IN  /\ ~isDuplicate(e)
           /\ Len(validate(e.dto)) = 0
           /\ SetExec(w, [e EXCEPT
                  !.seenReservationIds = @ \cup {e.dto.reservationId},
                  !.pc = "stream",
                  !.rowlog = LogRow(e, TRUE, Len(e.rawErrors) + 1,
                                    Len(e.rawErrors))])
    /\ UNCHANGED <<tasks, jobs, reservations, reports, events, disk, inbox,
                   creating, faults, stalls, guard, zone>>

\* the row is valid: remember its key and call processReservation(dto)
RowValid(w) ==
    /\ AtDataRow(w)
    /\ LET e == ReadRow(w)
       IN  /\ ~isDuplicate(e)
           /\ Len(validate(e.dto)) = 0
           /\ SetExec(w, [e EXCEPT
                  !.seenReservationIds = @ \cup {e.dto.reservationId},
                  !.pc = IF isCancelledOrCompleted(e.dto)
                         THEN "findByReservationId" ELSE "upsert",
                  !.rowlog = LogRow(e, TRUE, Len(e.rawErrors) + 1,
                                    Len(e.rawErrors))])
    /\ UNCHANGED <<tasks, jobs, reservations, reports, events, disk, inbox,
                   creating, faults, stalls, guard, zone>>

\* processReservation returned: the progress call that ends the iteration
EndRow(w, e) ==
    /\ events' = emitProgress(events, e.taskId, e.processedRows,
                              Len(e.rawErrors))
    /\ SetExec(w, [e EXCEPT !.pc = "stream"])

\* Variant: a record is created when the key is absent.
FindReservation_CreatesMissing(w) ==
    LET e == exec[w] IN
    /\ e.pc = "findByReservationId"
    /\ IF findByReservationId(reservations, e.dto.reservationId)
       THEN /\ SetExec(w, [e EXCEPT !.pc = "updateReservation"])
            /\ UNCHANGED <<events, reservations>>
       ELSE /\ reservations' = upsert(reservations, e.dto)
            /\ EndRow(w, e)
    /\ UNCHANGED <<tasks, jobs, reports, disk, inbox, creating, faults,
                   stalls, guard, zone>>

\* const existing = await findByReservationId(...): skip when absent
FindReservation(w) ==
    LET e == exec[w] IN
    /\ e.pc = "findByReservationId"
    /\ IF findByReservationId(reservations, e.dto.reservationId)
       THEN /\ SetExec(w, [e EXCEPT !.pc = "updateReservation"])
            /\ UNCHANGED events
       ELSE EndRow(w, e)
    /\ UNCHANGED <<tasks, jobs, reservations, reports, disk, inbox, creating,
                   faults, stalls, guard, zone>>

\* Variant: an existing record is overwritten with all of the row's values.
UpdateReservation_Upserts(w) ==
    LET e == exec[w] IN
    /\ e.pc = "updateReservation"
    /\ reservations' = upsert(reservations, e.dto)
    /\ EndRow(w, e)
    /\ UNCHANGED <<tasks, jobs, reports, disk, inbox, creating, faults,
                   stalls, guard, zone>>

\* await updateStatus(dto.reservationId, dto.status)
UpdateReservation(w) ==
    LET e == exec[w] IN
    /\ e.pc = "updateReservation"
    /\ reservations' = updateReservationStatus(reservations,
                           e.dto.reservationId, e.dto.status)
    /\ EndRow(w, e)
    /\ UNCHANGED <<tasks, jobs, reports, disk, inbox, creating, faults,
                   stalls, guard, zone>>

\* await upsert(dto)
UpsertReservation(w) ==
    LET e == exec[w] IN
    /\ e.pc = "upsert"
    /\ reservations' = upsert(reservations, e.dto)
    /\ EndRow(w, e)
    /\ UNCHANGED <<tasks, jobs, reports, disk, inbox, creating, faults,
                   stalls, guard, zone>>

\* Variant: a key whose store operation failed is not kept in the seen-set.
RowThrows_ForgetsKey(w) ==
    LET e == exec[w] IN
    /\ e.pc \in {"findByReservationId", "updateReservation", "upsert"}
    /\ faults > 0
    /\ faults' = faults - 1
    /\ LET rawErrors == Append(e.rawErrors,
                               [row     |-> e.rowNumber,
                                code    |-> ReportErrorCode.UNKNOWN,
                                message |-> "store error"])
           last == e.rowlog[Len(e.rowlog)]
       IN  EndRow(w, [e EXCEPT
               !.rawErrors = rawErrors,
               !.seenReservationIds = @ \ {e.dto.reservationId},
               !.rowlog = [e.rowlog EXCEPT ![Len(e.rowlog)] =
                              [last EXCEPT !.last = Len(rawErrors)]]])
    /\ UNCHANGED <<tasks, jobs, reservations, reports, disk, inbox, creating,
                   stalls, guard, zone>>

\* a reservation-store operation rejects: the per-row catch records UNKNOWN
RowThrows(w) ==
    LET e == exec[w] IN
    /\ e.pc \in {"findByReservationId", "updateReservation", "upsert"}
    /\ faults > 0
    /\ faults' = faults - 1
    /\ LET rawErrors == Append(e.rawErrors,
                               [row     |-> e.rowNumber,
                                code    |-> ReportErrorCode.UNKNOWN,
                                message |-> "store error"])
           last == e.rowlog[Len(e.rowlog)]
       IN  EndRow(w, [e EXCEPT
               !.rawErrors = rawErrors,
               !.rowlog = [e.rowlog EXCEPT ![Len(e.rowlog)] =
                              [last EXCEPT !.last = Len(rawErrors)]]])
    /\ UNCHANGED <<tasks, jobs, reservations, reports, disk, inbox, creating,
                   stalls, guard, zone>>

\* the last worksheet is exhausted
StreamEnd(w) ==
    LET e == exec[w] IN
    /\ e.pc = "stream"
    /\ ~StreamBreaks(e)
    /\ Pos(w)[1] = 0
    /\ SetExec(w, [e EXCEPT !.pc = "generateReport"])
    /\ UNCHANGED <<tasks, jobs, reservations, reports, events, disk, inbox,
                   creating, faults, stalls, guard, zone>>

(***************************************************************************)
(* After the loop, and the outer catch                                     *)
(***************************************************************************)
WriteReport(rs, report) ==
    IF report.path = "" THEN rs
    ELSE [p \in DOMAIN rs \cup {report.path} |->
             IF p = report.path THEN report.items ELSE rs[p]]

\* const report = await generateReport(taskId, rawErrors)
GenerateReport(w) ==
    LET e == exec[w]
        report == generateReport(e.taskId, e.rawErrors)
    IN
    /\ e.pc = "generateReport"
    /\ reports' = WriteReport(reports, report)
    /\ SetExec(w, [e EXCEPT !.pc = "completeTask",
                            !.reportPath = report.path])
    /\ UNCHANGED <<tasks, jobs, reservations, events, disk, inbox, creating,
                   faults, stalls, guard, zone>>

\* Variant: a run that accumulated Error Items ends FAILED.
CompleteTask_FailOnErrors(w) ==
    LET e == exec[w]
        status == IF Len(e.rawErrors) > 0 THEN TaskStatus.FAILED
                  ELSE TaskStatus.COMPLETED
    IN
    /\ e.pc = "completeTask"
    /\ tasks' = completeTask(tasks, e.taskId, status, e.reportPath)
    /\ events' = Emit(events, e.taskId,
                      [type |-> "status", status |-> status,
                       reportPath |-> e.reportPath])
    /\ SetExec(w, [e EXCEPT !.pc = "returned"])
    /\ UNCHANGED <<jobs, reservations, reports, disk, inbox, creating,
                   faults, stalls, guard, zone>>

\* await completeTask(taskId, COMPLETED, report.path)
CompleteTask(w) ==
    LET e == exec[w] IN
    /\ e.pc = "completeTask"
    /\ tasks' = completeTask(tasks, e.taskId, TaskStatus.COMPLETED,
                             e.reportPath)
    /\ events' = Emit(events, e.taskId,
                      [type |-> "status", status |-> TaskStatus.COMPLETED,
                       reportPath |-> e.reportPath])
    /\ SetExec(w, [e EXCEPT !.pc = "returned"])
    /\ UNCHANGED <<jobs, reservations, reports, disk, inbox, creating,
                   faults, stalls, guard, zone>>

FileProcessingFailed ==
    <<[row |-> 0, code |-> ReportErrorCode.UNKNOWN,
       message |-> "File processing failed"]>>

\* the report write or the completion write rejects inside the try block
\* Variant: completeTask(COMPLETED) updates the task and emits its event
\* before it rejects.
TryThrows_AfterEmit(w) ==
    LET e == exec[w] IN
    /\ e.pc = "completeTask"
    /\ faults > 0
    /\ faults' = faults - 1
    /\ tasks' = completeTask(tasks, e.taskId, TaskStatus.COMPLETED,
                             e.reportPath)
    /\ events' = Emit(events, e.taskId,
                      [type |-> "status", status |-> TaskStatus.COMPLETED,
                       reportPath |-> e.reportPath])
    /\ SetExec(w, [e EXCEPT !.pc = "catchReport"])
    /\ UNCHANGED <<jobs, reservations, reports, disk, inbox, creating,
                   stalls, guard, zone>>

TryThrows(w) ==
    LET e == exec[w] IN
    /\ \/ e.pc = "generateReport" /\ Len(e.rawErrors) > 0
       \/ e.pc = "completeTask"
    /\ faults > 0
    /\ faults' = faults - 1
    /\ SetExec(w, [e EXCEPT !.pc = "catchReport"])
    /\ UNCHANGED <<tasks, jobs, reservations, reports, events, disk, inbox,
                   creating, stalls, guard, zone>>

\* Variant: the row-0 item is added to the accumulated Error Items.
CatchReport_KeepRowErrors(w) ==
    LET e == exec[w]
        report == generateReport(e.taskId,
                                 e.rawErrors \o FileProcessingFailed)
    IN
    /\ e.pc = "catchReport"
    /\ reports' = WriteReport(reports, report)
    /\ SetExec(w, [e EXCEPT !.pc = "catchComplete",
                            !.reportPath = report.path])
    /\ UNCHANGED <<tasks, jobs, reservations, events, disk, inbox, creating,
                   faults, stalls, guard, zone>>

\* catch: const report = await generateReport(taskId, [row 0 item])
CatchReport(w) ==
    LET e == exec[w]
        report == generateReport(e.taskId, FileProcessingFailed)
    IN
    /\ e.pc = "catchReport"
    /\ reports' = WriteReport(reports, report)
    /\ SetExec(w, [e EXCEPT !.pc = "catchComplete",
                            !.reportPath = report.path])
    /\ UNCHANGED <<tasks, jobs, reservations, events, disk, inbox, creating,
                   faults, stalls, guard, zone>>

\* Variant: the catch block throws the error again after recording FAILED.
CatchComplete_Rethrows(w) ==
    LET e == exec[w] IN
    /\ e.pc = "catchComplete"
    /\ tasks' = completeTask(tasks, e.taskId, TaskStatus.FAILED,
                             e.reportPath)
    /\ events' = Emit(events, e.taskId,
                      [type |-> "status", status |-> TaskStatus.FAILED,
                       reportPath |-> e.reportPath])
    /\ SetExec(w, [e EXCEPT !.pc = "thrown"])
    /\ UNCHANGED <<jobs, reservations, reports, disk, inbox, creating,
                   faults, stalls, guard, zone>>

\* catch: await completeTask(taskId, FAILED, report.path)
\* Variant: a failed file takes the records of its keys out of the store.
CatchComplete_RollsBack(w) ==
    LET e == exec[w] IN
    /\ e.pc = "catchComplete"
    /\ tasks' = completeTask(tasks, e.taskId, TaskStatus.FAILED,
                             e.reportPath)
    /\ events' = Emit(events, e.taskId,
                      [type |-> "status", status |-> TaskStatus.FAILED,
                       reportPath |-> e.reportPath])
    /\ reservations' = [k \in DOMAIN reservations \ e.seenReservationIds |->
                           reservations[k]]
    /\ SetExec(w, [e EXCEPT !.pc = "returned"])
    /\ UNCHANGED <<jobs, reports, disk, inbox, creating, faults, stalls,
                   guard, zone>>

CatchComplete(w) ==
    LET e == exec[w] IN
    /\ e.pc = "catchComplete"
    /\ tasks' = completeTask(tasks, e.taskId, TaskStatus.FAILED,
                             e.reportPath)
    /\ events' = Emit(events, e.taskId,
                      [type |-> "status", status |-> TaskStatus.FAILED,
                       reportPath |-> e.reportPath])
    /\ SetExec(w, [e EXCEPT !.pc = "returned"])
    /\ UNCHANGED <<jobs, reservations, reports, disk, inbox, creating,
                   faults, stalls, guard, zone>>

\* an operation outside the try block, or inside the catch block, rejects:
\* process() throws
ProcessThrows(w) ==
    LET e == exec[w] IN
    /\ e.pc \in {"findById", "updateStatus", "catchReport", "catchComplete"}
    /\ faults > 0
    /\ faults' = faults - 1
    /\ SetExec(w, [e EXCEPT !.pc = "thrown"])
    /\ UNCHANGED <<tasks, jobs, reservations, reports, events, disk, inbox,
                   creating, stalls, guard, zone>>

(***************************************************************************)
(* The queue's bookkeeping.  A result only counts while the worker still   *)
(* holds the job's lock.                                                   *)
(***************************************************************************)
\* process() returned: the job is completed (and removed)
Return(w) ==
    LET e == exec[w] IN
    /\ e.pc = "returned"
    /\ jobs' = IF jobs[e.job].owner = w
               THEN [jobs EXCEPT ![e.job].state = "completed",
                                 ![e.job].owner = ""]
               ELSE jobs
    /\ SetExec(w, IdleExec)
    /\ UNCHANGED <<tasks, reservations, reports, events, disk, inbox,
                   creating, faults, stalls, guard, zone>>

\* process() threw: retry while attemptsMade < attempts, else failed
\* Variant: the queue grants one more attempt than configured.
onFailed_OneMoreAttempt(w) ==
    LET e == exec[w]
        attemptsMade == jobs[e.job].attemptsMade + 1
    IN
    /\ e.pc = "thrown"
    /\ jobs' = IF jobs[e.job].owner = w
               THEN [jobs EXCEPT
                        ![e.job].attemptsMade = attemptsMade,
                        ![e.job].state = IF attemptsMade <= attempts
                                         THEN "wait" ELSE "failed",
                        ![e.job].owner = ""]
               ELSE jobs
    /\ SetExec(w, IdleExec)
    /\ UNCHANGED <<tasks, reservations, reports, events, disk, inbox,
                   creating, faults, stalls, guard, zone>>

onFailed(w) ==
    LET e == exec[w]
        attemptsMade == jobs[e.job].attemptsMade + 1
    IN
    /\ e.pc = "thrown"
    /\ jobs' = IF jobs[e.job].owner = w
               THEN [jobs EXCEPT
                        ![e.job].attemptsMade = attemptsMade,
                        ![e.job].state = IF attemptsMade < attempts
                                         THEN "wait" ELSE "failed",
                        ![e.job].owner = ""]
               ELSE jobs
    /\ SetExec(w, IdleExec)
    /\ UNCHANGED <<tasks, reservations, reports, events, disk, inbox,
                   creating, faults, stalls, guard, zone>>

\* at-least-once delivery: the lock of an active job expires while its worker
\* is still running, and the queue puts the job back to be delivered again
Stall(j) ==
    /\ jobs[j].state = "active"
    /\ stalls > 0
    /\ stalls' = stalls - 1
    /\ jobs' = [jobs EXCEPT ![j].state = "wait", ![j].owner = ""]
    /\ UNCHANGED <<tasks, exec, reservations, reports, events, disk, inbox,
                   creating, faults, guard, zone>>

\* the lock expires after process() returned and before the queue has
\* recorded the result: the whole job runs again, after the first run
Redeliver(j) ==
    /\ jobs[j].state = "active"
    /\ exec[jobs[j].owner].pc = "returned"
    /\ Stall(j)


(***************************************************************************)
(* Bounds                                                                  *)
(***************************************************************************)
\* data rows per worksheet in the files built from SmallRows
MaxRows == 3
\* failing store/disk/queue operations in one behaviour
MaxFaults == 1
\* expiring job locks in one behaviour
MaxStalls == 1
\* data rows of the short files of the redelivery specification
TwiceRows == 2
\* rows that vary at the end of the files of the progress specification
TailLen == 3

(***************************************************************************)
(* Cells, rows and files of the model                                      *)
(***************************************************************************)
Text(str) == StrCell(<<str>>)
Padded(str) == StrCell(<<" ", str, " ">>)

HeaderRow == <<Text("reservation_id"), Text("guest_name"), Text("status"),
               Text("check_in_date"), Text("check_out_date")>>

KeyCells == {NullCell, Text("R1"), NumCell(2)}
GuestCells == {StrCell(<<" ">>), RichCell(<<"Jan ", "Nowak">>)}
StatusCells == {NullCell, Text(ReservationStatus.PENDING),
                Text(ReservationStatus.COMPLETED),
                Padded(ReservationStatus.CANCELLED), NumCell(1337)}
CheckInCells == {NullCell, Text("2024-05-03"), NumCell(45413),
                 Text("Not a date"), Text("May 7, 2024")}
CheckOutCells == {NullCell, Text("2024-05-03"), DateCell(45419 * msPerDay + 600),
                  Text("Not a date"), Text("May 7, 2024"), ObjCell}

\* every combination of the cells above
AllRows ==
    {<<k, g, s, ci, co>> : k \in KeyCells, g \in GuestCells,
                           s \in StatusCells, ci \in CheckInCells,
                           co \in CheckOutCells}

Row(key, guest, status, checkIn, checkOut) ==
    <<key, Text(guest), Text(status), Text(checkIn), Text(checkOut)>>

PendingR1 == Row(Text("R1"), "Jan Nowak", ReservationStatus.PENDING,
                 "2024-05-01", "2024-05-07")
PendingR1b == Row(Padded("R1"), "Anna Kowal", ReservationStatus.PENDING,
                  "2024-05-02", "2024-05-04")
CancelledR1 == Row(Text("R1"), "Jan Nowak", ReservationStatus.CANCELLED,
                   "2024-05-01", "2024-05-07")
CompletedR2 == Row(Text("R2"), "Adam Nowak", ReservationStatus.COMPLETED,
                   "2024-05-01", "2024-05-07")
PendingR2 == Row(Text("R2"), "Adam Nowak", ReservationStatus.PENDING,
                 "2024-05-01", "2024-05-07")
NoGuestR1 == Row(Text("R1"), "", ReservationStatus.PENDING,
                 "2024-05-01", "2024-05-07")
AllBadR1 == Row(Text("R1"), "", "unknown", "Not a date", "")
NoKey == Row(NullCell, "Jan Nowak", ReservationStatus.PENDING,
             "2024-05-01", "2024-05-07")

SmallRows == {PendingR1, PendingR1b, CancelledR1, CompletedR2, NoGuestR1,
              AllBadR1, NoKey}

Sheet(rows) == <<HeaderRow>> \o rows

\* one worksheet with a header and one data row of AllRows
SingleRowFiles == {File(<<Sheet(<<row>>)>>) : row \in AllRows}

\* one worksheet with a header and up to MaxRows data rows of SmallRows
MultiRowFiles ==
    {File(<<Sheet(rows)>>) :
        rows \in UNION {[1 .. n -> SmallRows] : n \in 0 .. MaxRows}}

\* two worksheets (one data row each, or two data rows in the first), and a
\* workbook whose only worksheet has no rows at all
MultiSheetFiles ==
    {File(<<Sheet(<<r1>>), Sheet(<<r2>>)>>) : r1 \in SmallRows,
                                              r2 \in SmallRows}
        \cup {File(<<Sheet(<<r1, r2>>), Sheet(<<r3>>)>>) :
                 r1 \in {PendingR1, NoKey}, r2 \in {PendingR1, NoKey},
                 r3 \in {PendingR1, NoKey}}
        \cup {File(<<<<>>>>)}

\* files whose stream throws: at the open, after the header, after k rows
CorruptFiles ==
    {CorruptFile(<<Sheet(<<r1, r2>>)>>, good) :
        r1 \in {PendingR1, NoGuestR1}, r2 \in {PendingR1, PendingR2},
        good \in 0 .. 3}

RowFiles == SingleRowFiles \cup MultiRowFiles \cup MultiSheetFiles
                \cup CorruptFiles

\* the files of the concurrent specification
LifeFiles ==
    {File(<<Sheet(<<PendingR1, PendingR1b>>)>>),
     File(<<Sheet(<<CancelledR1>>)>>),
     CorruptFile(<<Sheet(<<NoGuestR1>>)>>, 2)}

\* what clients upload in the concurrent specification: one file, or two
\* files of which the second is a workbook without rows
Uploads ==
    {<<file>> : file \in LifeFiles}
        \cup {<<File(<<Sheet(<<CancelledR1>>)>>), File(<<<<>>>>)>>}

\* n copies of a row
Repeat(row, n) == [i \in 1 .. n |-> row]

\* a worksheet of n data rows: a valid row with key R1, then duplicates of it
LongSheet(first, n) == Sheet(<<first>> \o Repeat(PendingR1b, n - 1))

\* the files of the redelivery specification: short files, files whose
\* stream throws, and a file of twice PROGRESS_EMIT_INTERVAL data rows
TwiceFiles ==
    {File(<<Sheet(rows)>>) :
        rows \in UNION {[1 .. n -> SmallRows] : n \in 0 .. TwiceRows}}
        \cup CorruptFiles
        \cup {File(<<LongSheet(PendingR1, 2 * PROGRESS_EMIT_INTERVAL)>>)}

\* the rows around the PROGRESS_EMIT_INTERVAL-th data row in the files of the
\* progress specification: valid, invalid or duplicate
TailRows == {PendingR2, NoKey, PendingR1b}

\* the files of the progress specification: TailLen rows of TailRows after
\* PROGRESS_EMIT_INTERVAL - 2 data rows (in the same or in a second
\* worksheet), a file one row short of the interval and one of twice the
\* interval
ProgressFiles ==
    {File(<<LongSheet(first, PROGRESS_EMIT_INTERVAL - 2) \o tail>>) :
        first \in {PendingR1, CancelledR1},
        tail \in [1 .. TailLen -> TailRows]}
        \cup {File(<<LongSheet(PendingR1, PROGRESS_EMIT_INTERVAL - 2),
                     Sheet(tail)>>) :
                 tail \in {<<NoKey, PendingR2, PendingR1>>,
                           <<PendingR2, NoKey, PendingR2>>}}
        \cup {File(<<LongSheet(PendingR1, PROGRESS_EMIT_INTERVAL - 1)>>),
              File(<<LongSheet(PendingR1, 2 * PROGRESS_EMIT_INTERVAL)>>)}

NoRecords == [k \in {} |-> 0]

\* a store that already holds a record for R1
OldR1 == upsert(NoRecords,
                [reservationId |-> "R1", guestName |-> "Old Guest",
                 status |-> ReservationStatus.PENDING,
                 checkInDate |-> "2024-05-05",
                 checkOutDate |-> "2024-05-06"])

\* a job left in the queue whose task is not in the task store
OrphanJob == [j \in {"t0"} |->
                 [taskId |-> "t0", state |-> "wait", attemptsMade |-> 0,
                  owner |-> ""]]

(***************************************************************************)
(* ApiKeyGuard.  A key (the API_KEY setting, a header, a handshake field)   *)
(* is undefined, a string, or a value of another type (the string[] of a   *)
(* repeated header or query parameter).                                    *)
(***************************************************************************)
Undefined == [k |-> "undefined", s |-> ""]
Str(s) == [k |-> "string", s |-> s]
Arr(s) == [k |-> "array", s |-> s]

\* !v: undefined and the empty string are falsy, an array is truthy
Falsy(v) == v.k = "undefined" \/ (v.k = "string" /\ v.s = "")

\* a || b
OrElse(a, b) == IF Falsy(a) THEN b ELSE a

\* the outcomes of canActivate
Returns(b) == [returns |-> b, throws |-> ""]
UnauthorizedException(message) == [returns |-> FALSE, throws |-> message]

validateHttp(request, apiKey) ==
    LET providedKey == request.header
    IN  IF Falsy(providedKey)
        THEN UnauthorizedException("Missing x-api-key header")
        ELSE IF providedKey # Str(apiKey)
        THEN UnauthorizedException("Invalid API key")
        ELSE Returns(TRUE)

validateWebSocket_QueryFirst(request, apiKey) ==
    LET providedKey == OrElse(request.query, request.auth)
    IN  IF Falsy(providedKey)
        THEN UnauthorizedException("Missing API key in WebSocket handshake")
        ELSE IF providedKey # Str(apiKey)
        THEN UnauthorizedException("Invalid API key")
        ELSE Returns(TRUE)

validateWebSocket(request, apiKey) ==
    LET providedKey == OrElse(request.auth, request.query)
    IN  IF Falsy(providedKey)
        THEN UnauthorizedException("Missing API key in WebSocket handshake")
        ELSE IF providedKey # Str(apiKey)
        THEN UnauthorizedException("Invalid API key")
        ELSE Returns(TRUE)

\* configService.get('API_KEY') is undefined or a string
canActivate(API_KEY, request) ==
    IF Falsy(API_KEY) THEN Returns(TRUE)
    ELSE IF request.type = "ws"
    THEN validateWebSocket(request, API_KEY.s)
    ELSE validateHttp(request, API_KEY.s)

\* no key configured, no request decided
NoGuard == [API_KEY |-> Undefined, decided |-> <<>>]

(***************************************************************************)
(* Specifications                                                          *)
(***************************************************************************)
InitCommon ==
    /\ tasks = NoRecords
    /\ guard = NoGuard
    /\ zone = UTC
    /\ reports = NoRecords
    /\ events = NoRecords
    /\ disk = NoRecords
    /\ creating = ""

\* Concurrent specification: two worker slots and two jobs (two uploads, or
\* one upload and an orphan job), failing operations and expiring locks.  The
\* store may hold a record for R1 when the cancelled R1 row is uploaded.
Init ==
    /\ InitCommon
    /\ inbox \in Uploads
    /\ jobs \in IF Len(inbox) = 1 THEN {NoRecords, OrphanJob}
               ELSE {NoRecords}
    /\ exec = [w \in {"w1", "w2"} |-> IdleExec]
    /\ reservations \in IF inbox = <<File(<<Sheet(<<CancelledR1>>)>>)>>
                       THEN {NoRecords, OldR1} ELSE {NoRecords}
    /\ faults = MaxFaults
    /\ stalls = MaxStalls

Next ==
    \/ createTaskSave
    \/ createTaskAdd
    \/ createTaskThrows
    \/ \E w \in Workers, j \in DOMAIN jobs : Deliver(w, j)
    \/ \E w \in Workers : FindTask(w)
    \/ \E w \in Workers : StartTask(w)
    \/ \E w \in Workers : StreamThrows(w)
    \/ \E w \in Workers : SkipHeader(w)
    \/ \E w \in Workers : RowDuplicate(w)
    \/ \E w \in Workers : RowInvalid(w)
    \/ \E w \in Workers : RowValid(w)
    \/ \E w \in Workers : FindReservation(w)
    \/ \E w \in Workers : UpdateReservation(w)
    \/ \E w \in Workers : UpsertReservation(w)
    \/ \E w \in Workers : RowThrows(w)
    \/ \E w \in Workers : StreamEnd(w)
    \/ \E w \in Workers : GenerateReport(w)
    \/ \E w \in Workers : CompleteTask(w)
    \/ \E w \in Workers : TryThrows(w)
    \/ \E w \in Workers : CatchReport(w)
    \/ \E w \in Workers : CatchComplete(w)
    \/ \E w \in Workers : ProcessThrows(w)
    \/ \E w \in Workers : Return(w)
    \/ \E w \in Workers : onFailed(w)
    \/ \E j \in DOMAIN jobs : Stall(j)

Spec == Init /\ [][Next]_vars

\* Sequential specification: one worker slot, one upload of RowFiles, no
\* failing operation and no expiring lock.
InitRows ==
    /\ InitCommon
    /\ jobs = NoRecords
    /\ exec = [w \in {"w1"} |-> IdleExec]
    /\ reservations \in {NoRecords, OldR1}
    /\ inbox \in {<<file>> : file \in RowFiles}
    /\ faults = 0
    /\ stalls = 0

NextRows ==
    \/ createTaskSave
    \/ createTaskAdd
    \/ \E w \in Workers, j \in DOMAIN jobs : Deliver(w, j)
    \/ \E w \in Workers : FindTask(w)
    \/ \E w \in Workers : StartTask(w)
    \/ \E w \in Workers : StreamThrows(w)
    \/ \E w \in Workers : SkipHeader(w)
    \/ \E w \in Workers : RowDuplicate(w)
    \/ \E w \in Workers : RowInvalid(w)
    \/ \E w \in Workers : RowValid(w)
    \/ \E w \in Workers : FindReservation(w)
    \/ \E w \in Workers : UpdateReservation(w)
    \/ \E w \in Workers : UpsertReservation(w)
    \/ \E w \in Workers : StreamEnd(w)
    \/ \E w \in Workers : GenerateReport(w)
    \/ \E w \in Workers : CompleteTask(w)
    \/ \E w \in Workers : CatchReport(w)
    \/ \E w \in Workers : CatchComplete(w)
    \/ \E w \in Workers : Return(w)

SpecRows == InitRows /\ [][NextRows]_vars

\* Redelivery specification: two worker slots, one upload of TwiceFiles, no
\* failing operation; the job may be delivered again after it has run.
InitTwice ==
    /\ InitCommon
    /\ jobs = NoRecords
    /\ exec = [w \in {"w1", "w2"} |-> IdleExec]
    /\ reservations \in {NoRecords, OldR1}
    /\ inbox \in {<<file>> : file \in TwiceFiles}
    /\ faults = 0
    /\ stalls = MaxStalls

NextTwice ==
    \/ createTaskSave
    \/ createTaskAdd
    \/ \E w \in Workers, j \in DOMAIN jobs : Deliver(w, j)
    \/ \E w \in Workers : FindTask(w)
    \/ \E w \in Workers : StartTask(w)
    \/ \E w \in Workers : StreamThrows(w)
    \/ \E w \in Workers : SkipHeader(w)
    \/ \E w \in Workers : RowDuplicate(w)
    \/ \E w \in Workers : RowInvalid(w)
    \/ \E w \in Workers : RowValid(w)
    \/ \E w \in Workers : FindReservation(w)
    \/ \E w \in Workers : UpdateReservation(w)
    \/ \E w \in Workers : UpsertReservation(w)
    \/ \E w \in Workers : StreamEnd(w)
    \/ \E w \in Workers : GenerateReport(w)
    \/ \E w \in Workers : CompleteTask(w)
    \/ \E w \in Workers : CatchReport(w)
    \/ \E w \in Workers : CatchComplete(w)
    \/ \E w \in Workers : Return(w)
    \/ \E j \in DOMAIN jobs : Redeliver(j)

SpecTwice == InitTwice /\ [][NextTwice]_vars

\* Progress specification: one worker slot, one upload of ProgressFiles,
\* reservation-store operations that fail.
InitProgress ==
    /\ InitCommon
    /\ jobs = NoRecords
    /\ exec = [w \in {"w1"} |-> IdleExec]
    /\ reservations \in {NoRecords, OldR1}
    /\ inbox \in {<<file>> : file \in ProgressFiles}
    /\ faults = MaxFaults
    /\ stalls = 0

NextProgress ==
    \/ createTaskSave
    \/ createTaskAdd
    \/ \E w \in Workers, j \in DOMAIN jobs : Deliver(w, j)
    \/ \E w \in Workers : FindTask(w)
    \/ \E w \in Workers : StartTask(w)
    \/ \E w \in Workers : SkipHeader(w)
    \/ \E w \in Workers : RowDuplicate(w)
    \/ \E w \in Workers : RowInvalid(w)
    \/ \E w \in Workers : RowValid(w)
    \/ \E w \in Workers : FindReservation(w)
    \/ \E w \in Workers : UpdateReservation(w)
    \/ \E w \in Workers : UpsertReservation(w)
    \/ \E w \in Workers : RowThrows(w)
    \/ \E w \in Workers : StreamEnd(w)
    \/ \E w \in Workers : GenerateReport(w)
    \/ \E w \in Workers : CompleteTask(w)
    \/ \E w \in Workers : Return(w)

SpecProgress == InitProgress /\ [][NextProgress]_vars


(***************************************************************************)
(* Properties.  rowlog holds one entry per data row an invocation handled: *)
(* the row's worksheet and number, its dto, whether it was passed to       *)
(* processReservation, and the range first..last of the Error Items that   *)
(* the row added to rawErrors.                                             *)
(***************************************************************************)
RowErrors(e, i) == SubSeq(e.rawErrors, e.rowlog[i].first, e.rowlog[i].last)

\* an earlier row of the invocation with the same key was accepted
SeenBefore(e, j) ==
    \E i \in 1 .. j - 1 :
        /\ e.rowlog[i].passed
        /\ e.rowlog[i].dto.reservationId = e.rowlog[j].dto.reservationId

DuplicateItem(entry) ==
    [row |-> entry.number, code |-> "DUPLICATE",
     field |-> entry.dto.reservationId]

Terminal == {"COMPLETED", "FAILED"}

\* C1: a task's status only moves PENDING -> IN_PROGRESS -> COMPLETED or
\* FAILED; once it is COMPLETED or FAILED no later step changes it, and it
\* never returns to PENDING (also when the queue delivers the job again).
C1_StatusOneDirectional ==
    [][\A t \in DOMAIN tasks :
          tasks'[t].status # tasks[t].status =>
              \/ tasks[t].status = "PENDING"
                     /\ tasks'[t].status = "IN_PROGRESS"
              \/ tasks[t].status = "IN_PROGRESS"
                     /\ tasks'[t].status \in Terminal]_vars

\* C2: when the stream was read to its end and the report and completion
\* writes succeeded, process() ends with the task COMPLETED whatever the
\* number of rows with Error Items, the report holds one item per Error Item
\* with the row's number, and the first data row has number 2.
C2_RowErrorsStillCompleted ==
    \A w \in Workers :
        LET e == exec[w] IN
        (e.pc = "returned" /\ e.filePath # "" /\ ~StreamBreaks(e)) =>
            /\ tasks[e.taskId].status = "COMPLETED"
            /\ tasks[e.taskId].reportPath = e.reportPath
            /\ (e.reportPath = "") = (Len(e.rawErrors) = 0)
            /\ e.reportPath # "" =>
                   /\ Len(reports[e.reportPath]) = Len(e.rawErrors)
                   /\ \A i \in 1 .. Len(e.rowlog) :
                          \A n \in e.rowlog[i].first .. e.rowlog[i].last :
                              reports[e.reportPath][n].row
                                  = e.rowlog[i].number
            /\ Len(e.rowlog) > 0 => e.rowlog[1].number = 2

\* C2 witness: a single data row with an empty guest name; the task is
\* COMPLETED with a report whose only item is at row 2.
C2_Witness ==
    \E w \in Workers :
        LET e == exec[w] IN
        /\ e.pc = "returned" /\ e.filePath # "" /\ ~StreamBreaks(e)
        /\ Len(e.rowlog) = 1
        /\ e.rowlog[1].dto.guestName = ""
        /\ Len(e.rawErrors) = 1
        /\ tasks[e.taskId].status = "COMPLETED"
        /\ e.reportPath # ""
        /\ reports[e.reportPath][1].row = 2

\* C3: when an exception escapes the row stream, the report holds exactly
\* the one row-0 UNKNOWN item (none of the row-level items accumulated
\* before) and the task is FAILED with that report's reference.
C3_StreamFailureReport ==
    \A w \in Workers :
        LET e == exec[w] IN
        (e.pc = "returned" /\ e.filePath # "" /\ StreamBreaks(e)) =>
            /\ tasks[e.taskId].status = "FAILED"
            /\ e.reportPath # ""
            /\ tasks[e.taskId].reportPath = e.reportPath
            /\ reports[e.reportPath]
                   = <<[row |-> 0, reason |-> "File processing failed",
                        suggestion |-> "Verify row data"]>>

\* C3 witness: the stream threw after data rows that had produced row-level
\* Error Items, and process() has finished.
C3_Witness ==
    \E w \in Workers :
        LET e == exec[w] IN
        /\ e.pc = "returned" /\ e.filePath # "" /\ StreamBreaks(e)
        /\ e.processedRows >= 1
        /\ Len(e.rawErrors) >= 1
        /\ tasks[e.taskId].status = "FAILED"

\* C4: when findById finds no task, process() returns and that step changes
\* no task, no reservation, no report and emits no event; nothing was read.
C4_MissingTaskNoEffect ==
    [][\A w \in Workers :
          (/\ exec[w].pc = "findById"
           /\ exec[w].taskId \notin DOMAIN tasks
           /\ exec'[w] # exec[w]) =>
              /\ exec'[w].pc \in {"returned", "thrown"}
              /\ exec'[w] = [exec[w] EXCEPT !.pc = exec'[w].pc]
              /\ exec'[w].nread = 0 /\ exec'[w].rowlog = <<>>
              /\ UNCHANGED <<tasks, reservations, reports, events>>]_vars

\* C4 witness: process() returned for a job whose task does not exist.
C4_Witness ==
    \E w \in Workers :
        /\ exec[w].pc = "returned"
        /\ exec[w].taskId \notin DOMAIN tasks
        /\ exec[w].taskId \notin DOMAIN events

\* C5: a reservation key is added to the store only by the upsert of a row
\* whose status is neither completed nor cancelled.
C5_TerminalRowsNeverCreate ==
    [][\A k \in DOMAIN reservations' \ DOMAIN reservations :
          \E w \in Workers :
              /\ exec'[w] # exec[w]
              /\ exec[w].dto.reservationId = k
              /\ exec[w].dto.status \notin {"zrealizowana", "anulowana"}]_vars

\* C5 witness: processReservation has returned for a cancelled row whose key
\* has no record, and the key still has none.
C5_Witness ==
    \E w \in Workers :
        LET e == exec[w] IN
        /\ e.pc = "stream"
        /\ Len(e.rowlog) > 0
        /\ e.rowlog[Len(e.rowlog)].passed
        /\ e.dto.status = "anulowana"
        /\ e.dto.reservationId \notin DOMAIN reservations

\* C6: of the first two rows with the same non-empty key that both pass
\* field validation, the first is passed to processReservation without an
\* Error Item and the second is not passed and yields exactly one DUPLICATE
\* item with its row number and the key as field.
C6_SecondOccurrenceDuplicate ==
    \A w \in Workers :
        LET e == exec[w] IN
        \A i, j \in 1 .. Len(e.rowlog) :
            (/\ i < j
             /\ e.rowlog[i].dto.reservationId # ""
             /\ e.rowlog[i].dto.reservationId = e.rowlog[j].dto.reservationId
             /\ \A k \in (1 .. j - 1) \ {i} :
                    e.rowlog[k].dto.reservationId
                        # e.rowlog[j].dto.reservationId
             /\ validate(e.rowlog[i].dto) = <<>>
             /\ validate(e.rowlog[j].dto) = <<>>) =>
                /\ e.rowlog[i].passed
                /\ RowErrors(e, i) = <<>>
                /\ ~e.rowlog[j].passed
                /\ RowErrors(e, j) = <<DuplicateItem(e.rowlog[j])>>

\* C6 witness: two valid rows with the same key were handled.
C6_Witness ==
    \E w \in Workers :
        LET e == exec[w] IN
        /\ Len(e.rowlog) = 2
        /\ e.rowlog[1].dto.reservationId = "R1"
        /\ e.rowlog[2].dto.reservationId = "R1"
        /\ validate(e.rowlog[1].dto) = <<>>
        /\ validate(e.rowlog[2].dto) = <<>>
        /\ e.rowlog[1].passed
        /\ Len(e.rawErrors) = 1

\* C7: a row is reported as DUPLICATE exactly when an earlier row with its
\* non-empty key passed validation: a row that failed validation does not
\* block a later valid row with its key, and after one valid row every later
\* row with the key yields one DUPLICATE item.
C7_SeenOnlyAfterValidation ==
    \A w \in Workers :
        LET e == exec[w] IN
        \A j \in 1 .. Len(e.rowlog) :
            /\ (e.rowlog[j].dto.reservationId # "" /\ SeenBefore(e, j)) =>
                   /\ ~e.rowlog[j].passed
                   /\ RowErrors(e, j) = <<DuplicateItem(e.rowlog[j])>>
            /\ (~SeenBefore(e, j) /\ validate(e.rowlog[j].dto) = <<>>) =>
                   /\ e.rowlog[j].passed
                   /\ RowErrors(e, j) = <<>>

\* C7 witness: a row with key R1 failed validation, the next row with R1 was
\* passed to processReservation, and a third row with R1 is a duplicate.
C7_Witness ==
    \E w \in Workers :
        LET e == exec[w] IN
        /\ Len(e.rowlog) = 3
        /\ \A i \in 1 .. 3 : e.rowlog[i].dto.reservationId = "R1"
        /\ ~e.rowlog[1].passed /\ validate(e.rowlog[1].dto) # <<>>
        /\ e.rowlog[2].passed
        /\ RowErrors(e, 3) = <<DuplicateItem(e.rowlog[3])>>

\* C8: for every data row with an empty required field, the Error Item
\* recorded for that field has code MISSING_FIELD and the row is not passed
\* to processReservation.
C8_EmptyFieldIsMissingField ==
    \A w \in Workers :
        LET e == exec[w] IN
        \A i \in 1 .. Len(e.rowlog) :
            \A f \in {"reservationId", "guestName", "status", "checkInDate",
                      "checkOutDate"} :
                e.rowlog[i].dto[f] = "" =>
                    /\ ~e.rowlog[i].passed
                    /\ \A n \in e.rowlog[i].first .. e.rowlog[i].last :
                           ("field" \in DOMAIN e.rawErrors[n]
                                /\ e.rawErrors[n].field = f) =>
                               e.rawErrors[n].code = "MISSING_FIELD"

\* C9: a CHECKOUT_BEFORE_CHECKIN item is recorded for a row only when both
\* dates of the row parse and check-out <= check-in.
C9_CheckoutCodeOnlyForParsedDates ==
    \A w \in Workers :
        LET e == exec[w] IN
        \A i \in 1 .. Len(e.rowlog) :
            \A n \in e.rowlog[i].first .. e.rowlog[i].last :
                e.rawErrors[n].code = "CHECKOUT_BEFORE_CHECKIN" =>
                    /\ NewDate(e.rowlog[i].dto.checkInDate) # NaN
                    /\ NewDate(e.rowlog[i].dto.checkOutDate) # NaN
                    /\ NewDate(e.rowlog[i].dto.checkOutDate)
                           <= NewDate(e.rowlog[i].dto.checkInDate)

ViolatingFields(dto) ==
    {p \in {"reservationId", "guestName", "status", "checkInDate",
            "checkOutDate"} : ReservationRowDto(dto, p) # {}}

\* the Error Items a step of worker w appended to rawErrors
NewErrors(w) ==
    SubSeq(exec'[w].rawErrors, Len(exec[w].rawErrors) + 1,
           Len(exec'[w].rawErrors))

\* worker w handles one more data row in this step
HandlesRow(w) == Len(exec'[w].rowlog) = Len(exec[w].rowlog) + 1

\* C11: the step that handles a data row which is not a duplicate and has k
\* violating fields (k >= 1) appends exactly k Error Items, one naming each
\* violating field, all with the row's number, and does not pass the row on.
C11_AllViolationsReported ==
    [][\A w \in Workers :
          HandlesRow(w) =>
              \A j \in {Len(exec'[w].rowlog)} :
                  (/\ ~(exec'[w].rowlog[j].dto.reservationId # ""
                           /\ SeenBefore(exec'[w], j))
                   /\ ViolatingFields(exec'[w].rowlog[j].dto) # {}) =>
                      /\ Len(NewErrors(w))
                             = Cardinality(
                                   ViolatingFields(exec'[w].rowlog[j].dto))
                      /\ {NewErrors(w)[n].field :
                              n \in 1 .. Len(NewErrors(w))}
                             = ViolatingFields(exec'[w].rowlog[j].dto)
                      /\ \A n \in 1 .. Len(NewErrors(w)) :
                             NewErrors(w)[n].row = exec'[w].rowlog[j].number
                      /\ exec'[w].rawErrors
                             = exec[w].rawErrors \o NewErrors(w)
                      /\ ~exec'[w].rowlog[j].passed]_vars

\* C11 witness: a row whose five fields all violate a rule was handled and
\* contributed five Error Items.
C11_Witness ==
    \E w \in Workers :
        \E i \in 1 .. Len(exec[w].rowlog) :
            /\ Cardinality(ViolatingFields(exec[w].rowlog[i].dto)) = 5
            /\ exec[w].rowlog[i].last - exec[w].rowlog[i].first + 1 = 5
            /\ ~exec[w].rowlog[i].passed

\* C12: when the lookup, the status update or the upsert of
\* processReservation fails for a valid row, process() throws (so that the
\* queue can deliver the job again) and no Error Item is recorded for it.
C12_StoreFailurePropagates ==
    [][\A w \in Workers :
          (/\ exec[w].pc \in {"findByReservationId", "updateReservation",
                              "upsert"}
           /\ exec'[w] # exec[w]
           /\ faults' < faults) =>
              /\ exec'[w].pc = "thrown"
              /\ exec'[w].rawErrors = exec[w].rawErrors]_vars

\* C13: a step of an invocation whose row stream did not throw never sets
\* the task to FAILED, and a report it writes holds the accumulated
\* row-level Error Items (it is not the single row-0 item).
C13_FailedOnlyOnStreamFailure ==
    [][\A w \in Workers :
          (/\ exec'[w] # exec[w]
           /\ exec[w].filePath # ""
           /\ ~StreamBreaks(exec[w])) =>
              /\ \A t \in DOMAIN tasks :
                     tasks'[t] # tasks[t] => tasks'[t].status # "FAILED"
              /\ reports' # reports =>
                     /\ Len(reports'[exec'[w].reportPath])
                            = Len(exec[w].rawErrors)
                     /\ \A n \in 1 .. Len(exec[w].rawErrors) :
                            reports'[exec'[w].reportPath][n].row
                                = exec[w].rawErrors[n].row]_vars

\* the row stream of the invocation in slot w threw
StreamFailed(w) == exec[w].filePath # "" /\ StreamBreaks(exec[w])

\* C14: after a stream failure, the step that records FAILED (and emits the
\* status event) ends process() by a normal return, and the return of such
\* an invocation never counts as a failed attempt: the job is not put back
\* to wait, and it is completed when the worker still holds it.
C14_PipelineErrorNotRethrown ==
    [][\A w \in Workers :
          (StreamFailed(w) /\ exec'[w] # exec[w]) =>
              /\ (exec[w].pc = "catchComplete" /\ events' # events) =>
                     /\ exec'[w].pc = "returned"
                     /\ tasks'[exec[w].taskId].status = "FAILED"
              /\ exec[w].pc = "returned" =>
                     /\ jobs'[exec[w].job].attemptsMade
                            = jobs[exec[w].job].attemptsMade
                     /\ jobs'[exec[w].job].state
                            \in {jobs[exec[w].job].state, "completed"}
                     /\ jobs[exec[w].job].owner = w =>
                            jobs'[exec[w].job].state = "completed"]_vars

\* C14 witness: the job of a corrupt file is completed without a failed
\* attempt while its task is FAILED.
C14_Witness ==
    \E j \in DOMAIN jobs \cap DOMAIN tasks :
        /\ jobs[j].state = "completed"
        /\ jobs[j].attemptsMade = 0
        /\ tasks[j].status = "FAILED"
        /\ disk[tasks[j].filePath].corrupt

\* the positions <<worksheet, row number>> of the data rows of a file
DataRows(file) ==
    UNION {{<<ws, rn>> : rn \in 2 .. Len(file.sheets[ws])} :
              ws \in 1 .. Len(file.sheets)}

\* position p comes before position q in the file
Before(p, q) == p[1] < q[1] \/ (p[1] = q[1] /\ p[2] < q[2])

\* C15: the rows an invocation has handled are data rows of its file in
\* file order, whatever happened to the rows before them, and once the
\* stream was read to its end they are all the data rows: the processed-row
\* counter equals the number of data rows of the file.
C15_RowProblemsNeverAbort ==
    \A w \in Workers :
        exec[w].filePath # "" =>
            /\ exec[w].processedRows = Len(exec[w].rowlog)
            /\ \A i \in 1 .. Len(exec[w].rowlog) :
                   /\ <<exec[w].rowlog[i].ws, exec[w].rowlog[i].number>>
                          \in DataRows(disk[exec[w].filePath])
                   /\ exec[w].rowlog[i].dto
                          = mapRowToDto(disk[exec[w].filePath]
                                .sheets[exec[w].rowlog[i].ws]
                                       [exec[w].rowlog[i].number])
                   /\ i > 1 =>
                          Before(<<exec[w].rowlog[i - 1].ws,
                                   exec[w].rowlog[i - 1].number>>,
                                 <<exec[w].rowlog[i].ws,
                                   exec[w].rowlog[i].number>>)
            /\ (/\ exec[w].pc \in {"generateReport", "completeTask",
                                    "returned"}
                /\ ~StreamBreaks(exec[w])) =>
                   exec[w].processedRows
                       = Cardinality(DataRows(disk[exec[w].filePath]))

\* C15 witness: process() returned for a file whose first data row failed
\* validation and whose third is a duplicate; all three rows were handled.
C15_Witness ==
    \E w \in Workers :
        /\ exec[w].pc = "returned" /\ exec[w].filePath # ""
        /\ ~StreamBreaks(exec[w])
        /\ exec[w].processedRows = 3
        /\ Len(exec[w].rowlog) = 3
        /\ ~exec[w].rowlog[1].passed
        /\ exec[w].rowlog[2].passed
        /\ ~exec[w].rowlog[3].passed
        /\ exec[w].rawErrors[Len(exec[w].rawErrors)].code = "DUPLICATE"

\* C16: while the slot that ran a job first still shows the finished first
\* run, no step of the second run of the job changes the reservation store or
\* the report artifacts, and the second run ends with the Error Items and
\* the report reference of the first.
C16_RedeliveryIdempotent ==
    [][\A w1, w2 \in Workers :
          (/\ w1 # w2
           /\ exec[w1].pc = "returned" /\ exec[w1].filePath # ""
           /\ exec'[w1] = exec[w1]
           /\ exec[w2].job = exec[w1].job
           /\ exec'[w2] # exec[w2]) =>
              /\ reservations' = reservations
              /\ reports' = reports
              /\ exec'[w2].pc = "returned" =>
                     /\ exec'[w2].rawErrors = exec[w1].rawErrors
                     /\ exec'[w2].reportPath = exec[w1].reportPath]_vars

\* C16 witness: both runs of a job have returned; the runs produced Error
\* Items and the store holds a record.
C16_Witness ==
    \E w1, w2 \in Workers :
        /\ w1 # w2
        /\ exec[w1].pc = "returned" /\ exec[w2].pc = "returned"
        /\ exec[w1].filePath # "" /\ exec[w2].job = exec[w1].job
        /\ Len(exec[w2].rawErrors) > 0
        /\ Len(exec[w2].rowlog) = 2
        /\ exec[w2].rowlog[2].passed
        /\ DOMAIN reservations # {}

\* the rows-processed values of the progress events of task t, in the order
\* of emission
ProgressEvents(t) == SelectSeq(events[t], LAMBDA ev : ev.type = "progress")

\* C17: for every task, the rows-processed values of its successive progress
\* events never decrease, over all executions of its job.
C17_ProgressMonotonic ==
    \A t \in DOMAIN events :
        \A i \in 1 .. Len(ProgressEvents(t)) - 1 :
            ProgressEvents(t)[i].processedRows
                <= ProgressEvents(t)[i + 1].processedRows

\* C18: for every task, no progress event follows a COMPLETED or FAILED
\* status event of the task.
C18_NoProgressAfterTerminal ==
    \A t \in DOMAIN events :
        \A i, j \in 1 .. Len(events[t]) :
            (/\ i < j
             /\ events[t][i].type = "status"
             /\ events[t][i].status \in Terminal) =>
                events[t][j].type # "progress"

\* the step of worker w ends the loop iteration of a data row
RowDone(w) ==
    /\ exec'[w].pc = "stream"
    /\ \/ HandlesRow(w)
       \/ exec[w].pc \in {"findByReservationId", "updateReservation",
                          "upsert"}

\* the events of task t in ev
EventsOf(ev, t) == IF t \in DOMAIN ev THEN ev[t] ELSE <<>>

\* C19: the step that ends the iteration of a data row emits one progress
\* event, with the row count and the number of Error Items accumulated so
\* far, exactly when the row count is a positive multiple of 100, whatever
\* happened to the row; no other step emits a progress event.  So after k
\* finished rows the task has k \div 100 progress events (none for a file
\* of fewer than 100 data rows).
C19_ProgressEveryHundredRows ==
    [][\A w \in Workers :
          /\ (RowDone(w) /\ exec'[w].processedRows % 100 = 0) =>
                 events'[exec[w].taskId]
                     = Append(EventsOf(events, exec[w].taskId),
                              [type          |-> "progress",
                               processedRows |-> exec'[w].processedRows,
                               errorCount    |-> Len(exec'[w].rawErrors)])
          /\ ~(RowDone(w) /\ exec'[w].processedRows % 100 = 0) =>
                 \A t \in DOMAIN events' :
                     \/ events'[t] = EventsOf(events, t)
                     \/ /\ events'[t][Len(events'[t])].type # "progress"
                        /\ SubSeq(events'[t], 1, Len(events'[t]) - 1)
                               = EventsOf(events, t)
          /\ exec'[w].pc \in {"stream", "generateReport", "completeTask",
                               "returned"} =>
                 Cardinality({n \in 1 .. Len(EventsOf(events',
                                                      exec'[w].taskId)) :
                                 events'[exec'[w].taskId][n].type
                                     = "progress"})
                     = exec'[w].processedRows \div 100]_vars

\* C19 witness: the store failed for the 100th data row; the row's UNKNOWN
\* item is counted in the progress event for row count 100.
C19_Witness ==
    \E w \in Workers :
        /\ Len(exec[w].rowlog) >= 100
        /\ exec[w].rowlog[100].passed
        /\ exec[w].rowlog[100].last >= exec[w].rowlog[100].first
        /\ exec[w].rawErrors[exec[w].rowlog[100].last].code = "UNKNOWN"
        /\ \E n \in 1 .. Len(EventsOf(events, exec[w].taskId)) :
               events[exec[w].taskId][n]
                   = [type |-> "progress", processedRows |-> 100,
                      errorCount |-> exec[w].rowlog[100].last]

\* C20: generateReport for an execution without Error Items writes no
\* artifact and yields the empty path; the step that finishes a task stores
\* an empty report reference exactly when it stores COMPLETED for an
\* execution without Error Items; with COMPLETED and at least one Error
\* Item, and with FAILED, the reference is not empty and its artifact exists
\* with at least one item.
C20_ReportReferenceEmptyIffNoErrors ==
    [][\A w \in Workers :
          /\ (/\ exec[w].pc = "generateReport"
              /\ exec'[w].pc = "completeTask"
              /\ Len(exec[w].rawErrors) = 0) =>
                 /\ reports' = reports
                 /\ exec'[w].reportPath = ""
          /\ (/\ exec[w].pc \in {"completeTask", "catchComplete"}
              /\ exec'[w].pc = "returned") =>
                 /\ tasks'[exec[w].taskId].status \in Terminal
                 /\ tasks'[exec[w].taskId].status = "COMPLETED" =>
                        /\ (tasks'[exec[w].taskId].reportPath = "")
                               = (Len(exec[w].rawErrors) = 0)
                        /\ exec[w].pc = "completeTask"
                 /\ tasks'[exec[w].taskId].status = "FAILED" =>
                        tasks'[exec[w].taskId].reportPath # ""
                 /\ tasks'[exec[w].taskId].reportPath # "" =>
                        /\ tasks'[exec[w].taskId].reportPath
                               \in DOMAIN reports
                        /\ Len(reports[tasks'[exec[w].taskId].reportPath])
                               > 0]_vars

\* C20 witness: a task is COMPLETED with an empty reference after its rows
\* were handled without Error Items, and no report artifact exists.
C20_Witness ==
    \E w \in Workers :
        /\ exec[w].pc = "returned"
        /\ Len(exec[w].rowlog) > 0
        /\ Len(exec[w].rawErrors) = 0
        /\ tasks[exec[w].taskId].status = "COMPLETED"
        /\ tasks[exec[w].taskId].reportPath = ""
        /\ DOMAIN reports = {}

\* C21: the report written at the end of a fully read stream holds one item
\* per accumulated Error Item, in the order of accumulation and with the
\* item's row number, and the row numbers of the report never decrease from
\* one item to the next, also for a file with several worksheets.
C21_ReportRowsAscending ==
    \A w \in Workers :
        (/\ exec[w].pc \in {"completeTask", "returned"}
         /\ exec[w].filePath # ""
         /\ ~StreamBreaks(exec[w])
         /\ exec[w].reportPath # "") =>
            /\ Len(reports[exec[w].reportPath]) = Len(exec[w].rawErrors)
            /\ \A n \in 1 .. Len(exec[w].rawErrors) :
                   reports[exec[w].reportPath][n].row
                       = exec[w].rawErrors[n].row
            /\ \A n \in 1 .. Len(reports[exec[w].reportPath]) - 1 :
                   reports[exec[w].reportPath][n].row
                       <= reports[exec[w].reportPath][n + 1].row

\* C22: a valid row with status cancelled or completed goes to the lookup of
\* its key; when the lookup finds a record, the lookup writes nothing and is
\* followed by exactly one update, which changes the status of that record to
\* the row's status and nothing else (guest name and both dates stay as
\* stored, all other records stay, no record is added), and
\* processReservation resolves to true after one write.
C22_StatusOnlyUpdate ==
    [][\A w \in Workers :
        /\ (HandlesRow(w)
                /\ exec'[w].rowlog[Len(exec'[w].rowlog)].passed
                /\ exec'[w].dto.status \in {ReservationStatus.CANCELLED,
                                            ReservationStatus.COMPLETED}) =>
               exec'[w].pc = "findByReservationId"
        /\ (exec[w].pc = "findByReservationId"
                /\ exec'[w] # exec[w]
                /\ faults' = faults
                /\ exec[w].dto.reservationId \in DOMAIN reservations) =>
               /\ reservations' = reservations
               /\ exec'[w].pc = "updateReservation"
               /\ exec'[w].dto = exec[w].dto
        /\ (exec[w].pc = "updateReservation"
                /\ exec'[w] # exec[w]
                /\ faults' = faults) =>
               /\ exec[w].dto.status \in {ReservationStatus.CANCELLED,
                                           ReservationStatus.COMPLETED}
               /\ exec[w].dto.reservationId \in DOMAIN reservations
               /\ DOMAIN reservations' = DOMAIN reservations
               /\ \A k \in DOMAIN reservations :
                      /\ reservations'[k].guestName
                             = reservations[k].guestName
                      /\ reservations'[k].checkInDate
                             = reservations[k].checkInDate
                      /\ reservations'[k].checkOutDate
                             = reservations[k].checkOutDate
                      /\ reservations'[k].status
                             = IF k = exec[w].dto.reservationId
                               THEN exec[w].dto.status
                               ELSE reservations[k].status
               /\ processReservation(reservations, exec[w].dto)
                      = [store |-> reservations', writes |-> 1,
                         result |-> TRUE]
               /\ exec'[w].pc = "stream"
               /\ exec'[w].rawErrors = exec[w].rawErrors]_vars

\* a cancelled row for R1 that carries another guest name and other dates
\* than the stored record has been processed: only the status changed
C22_Witness ==
    \E w \in Workers :
        /\ exec[w].pc = "stream"
        /\ Len(exec[w].rowlog) = 1
        /\ exec[w].rowlog[1].passed
        /\ exec[w].dto.reservationId = "R1"
        /\ exec[w].dto.status = ReservationStatus.CANCELLED
        /\ exec[w].dto.guestName = "Jan Nowak"
        /\ exec[w].dto.checkInDate = "2024-05-01"
        /\ "R1" \in DOMAIN reservations
        /\ reservations["R1"]
               = [OldR1["R1"] EXCEPT !.status = ReservationStatus.CANCELLED]

\* C23: when the lookup for a valid cancelled or completed row finds no
\* record for the row's key, the row is finished by that lookup alone: the
\* store is left as it was, no Error Item is added, the row loop goes on, and
\* processReservation resolves to false after zero writes.
C23_AbsentKeySkipped ==
    [][\A w \in Workers :
        (/\ exec[w].pc = "findByReservationId"
         /\ exec'[w] # exec[w]
         /\ faults' = faults
         /\ exec[w].dto.reservationId \notin DOMAIN reservations) =>
            /\ exec[w].dto.status \in {ReservationStatus.CANCELLED,
                                        ReservationStatus.COMPLETED}
            /\ exec[w].rowlog[Len(exec[w].rowlog)].passed
            /\ reservations' = reservations
            /\ exec'[w].rawErrors = exec[w].rawErrors
            /\ exec'[w].rowlog = exec[w].rowlog
            /\ exec'[w].pc = "stream"
            /\ processReservation(reservations, exec[w].dto)
                   = [store |-> reservations, writes |-> 0,
                      result |-> FALSE]]_vars

\* a completed row for R2 has been processed against a store without R2: no
\* record for R2 and no Error Item
C23_Witness ==
    \E w \in Workers :
        /\ exec[w].pc = "stream"
        /\ Len(exec[w].rowlog) = 1
        /\ exec[w].rowlog[1].passed
        /\ exec[w].dto.reservationId = "R2"
        /\ exec[w].dto.status = ReservationStatus.COMPLETED
        /\ "R2" \notin DOMAIN reservations
        /\ exec[w].rawErrors = <<>>

\* C24: a valid row that is no duplicate and has status pending goes to the
\* upsert; after the upsert the store has a record for the row's key (and the
\* records of other keys as before) whose guest name, status and dates are
\* the row's, whether or not the key had a record; a file whose only data
\* row is such a row ends COMPLETED with an empty report reference.
C24_PendingRowUpserted ==
    [][\A w \in Workers :
        /\ (HandlesRow(w)
                /\ exec'[w].rowlog[Len(exec'[w].rowlog)].passed
                /\ exec'[w].dto.status = ReservationStatus.PENDING) =>
               exec'[w].pc = "upsert"
        /\ (exec[w].pc = "upsert" /\ exec'[w] # exec[w]
                /\ faults' = faults) =>
               /\ exec[w].dto.status = ReservationStatus.PENDING
               /\ DOMAIN reservations'
                      = DOMAIN reservations \cup {exec[w].dto.reservationId}
               /\ \A k \in DOMAIN reservations :
                      k # exec[w].dto.reservationId =>
                          reservations'[k] = reservations[k]
               /\ reservations'[exec[w].dto.reservationId].guestName
                      = exec[w].dto.guestName
               /\ reservations'[exec[w].dto.reservationId].status
                      = exec[w].dto.status
               /\ formatYmd(CivilDate(
                      reservations'[exec[w].dto.reservationId].checkInDate))
                      = exec[w].dto.checkInDate
               /\ formatYmd(CivilDate(
                      reservations'[exec[w].dto.reservationId].checkOutDate))
                      = exec[w].dto.checkOutDate
               /\ processReservation(reservations, exec[w].dto)
                      = [store |-> reservations', writes |-> 1,
                         result |-> TRUE]
               /\ exec'[w].rawErrors = exec[w].rawErrors
        /\ (/\ exec'[w].pc = "returned"
            /\ exec'[w].filePath # ""
            /\ Cardinality(DataRows(disk[exec'[w].filePath])) = 1
            /\ Len(exec'[w].rowlog) = 1
            /\ exec'[w].rowlog[1].passed
            /\ exec'[w].rowlog[1].dto.status = ReservationStatus.PENDING) =>
               /\ tasks'[exec'[w].taskId].status = TaskStatus.COMPLETED
               /\ tasks'[exec'[w].taskId].reportPath = ""]_vars

\* the file whose only row is the pending row for R1 has been processed: the
\* task is COMPLETED without report and the record of R1 holds the row's
\* values, not those of OldR1
C24_Witness ==
    \E w \in Workers :
        /\ exec[w].pc = "returned"
        /\ Len(exec[w].rowlog) = 1
        /\ exec[w].rowlog[1].passed
        /\ exec[w].rowlog[1].dto.status = ReservationStatus.PENDING
        /\ exec[w].rowlog[1].dto.guestName = "Jan Nowak"
        /\ tasks[exec[w].taskId].status = TaskStatus.COMPLETED
        /\ tasks[exec[w].taskId].reportPath = ""
        /\ DOMAIN reservations = {"R1"}
        /\ reservations["R1"].guestName = "Jan Nowak"
        /\ reservations["R1"].checkInDate # OldR1["R1"].checkInDate

\* C25: the seen-key set and the Error Item list of an execution are built
\* from that execution's own rows only.  Before the first row both are
\* empty; afterwards the seen-key set is the set of keys of the rows this
\* execution passed, the Error Item list is the concatenation of the items
\* of this execution's rows, and a DUPLICATE item stands only for a row
\* whose key an earlier row of this same execution passed with - whatever
\* the other execution has seen or recorded.
C25_LocalsPerInvocation ==
    \A w \in Workers :
        /\ exec[w].pc \in {"idle", "findById", "updateStatus"} =>
               /\ exec[w].seenReservationIds = {}
               /\ exec[w].rawErrors = <<>>
               /\ exec[w].rowlog = <<>>
        /\ exec[w].seenReservationIds
               = {exec[w].rowlog[i].dto.reservationId :
                     i \in {n \in 1 .. Len(exec[w].rowlog) :
                                exec[w].rowlog[n].passed}}
        /\ Len(exec[w].rawErrors)
               = IF exec[w].rowlog = <<>> THEN 0
                 ELSE exec[w].rowlog[Len(exec[w].rowlog)].last
        /\ \A j \in 1 .. Len(exec[w].rowlog) :
               /\ exec[w].rowlog[j].first
                      = IF j = 1 THEN 1 ELSE exec[w].rowlog[j - 1].last + 1
               /\ \A n \in exec[w].rowlog[j].first
                                .. exec[w].rowlog[j].last :
                      /\ exec[w].rawErrors[n].row = exec[w].rowlog[j].number
                      /\ exec[w].rawErrors[n].code = ReportErrorCode.DUPLICATE
                             => SeenBefore(exec[w], j)

\* two executions are under way at once: one has seen R1 and holds a
\* DUPLICATE item, the other has just passed its first row, also with key R1
C25_Witness ==
    \E w \in Workers, v \in Workers :
        /\ w # v
        /\ exec[v].pc \notin {"idle", "returned", "thrown"}
        /\ "R1" \in exec[v].seenReservationIds
        /\ Len(exec[v].rawErrors) = 1
        /\ exec[v].rawErrors[1].code = ReportErrorCode.DUPLICATE
        /\ exec[w].pc = "upsert"
        /\ Len(exec[w].rowlog) = 1
        /\ exec[w].rowlog[1].passed
        /\ exec[w].dto.reservationId = "R1"
        /\ exec[w].rawErrors = <<>>

\* the program positions at which a reservation-store operation of the
\* current row is awaited
StorePcs == {"findByReservationId", "updateReservation", "upsert"}

\* C26: one execution handles its rows one at a time and in file order.  A
\* row is mapped, checked and validated only while no store operation of
\* this execution is outstanding, and it lies after the previous row in the
\* file; a valid row's store operation is started by the step that handles
\* the row and is awaited: while it is outstanding it belongs to the last
\* handled row, no further row is handled, and it ends (completed or failed)
\* back in the row loop; the store changes only in such an awaited operation
\* and only at the key of that row.
C26_RowsOneAtATime ==
    [][\A w \in Workers :
        /\ HandlesRow(w) =>
               /\ exec[w].pc = "stream"
               /\ reservations' = reservations
               /\ exec'[w].rowlog[Len(exec'[w].rowlog)].passed
                      = (exec'[w].pc \in StorePcs)
               /\ ~exec'[w].rowlog[Len(exec'[w].rowlog)].passed
                      => exec'[w].pc = "stream"
               /\ \A i \in 1 .. Len(exec[w].rowlog) :
                      /\ exec'[w].rowlog[i] = exec[w].rowlog[i]
                      /\ Before(<<exec[w].rowlog[i].ws,
                                  exec[w].rowlog[i].number>>,
                                <<exec'[w].rowlog[Len(exec'[w].rowlog)].ws,
                                  exec'[w].rowlog[Len(exec'[w].rowlog)]
                                      .number>>)
        /\ (exec[w].pc \in StorePcs /\ exec'[w] # exec[w]) =>
               /\ exec[w].rowlog[Len(exec[w].rowlog)].passed
               /\ exec[w].rowlog[Len(exec[w].rowlog)].dto = exec[w].dto
               /\ Len(exec'[w].rowlog) = Len(exec[w].rowlog)
               /\ exec'[w].dto = exec[w].dto
               /\ exec'[w].pc \in StorePcs \cup {"stream"}
               /\ \A k \in DOMAIN reservations' :
                      (k \notin DOMAIN reservations
                          \/ reservations'[k] # reservations[k])
                          => k = exec[w].dto.reservationId
        /\ (\A v \in Workers : exec[v].pc \notin StorePcs)
               => reservations' = reservations]_vars

\* the store operation of a later row is outstanding after the store
\* operation of the first row has completed
C26_Witness ==
    \E w \in Workers :
        /\ exec[w].pc = "upsert"
        /\ Len(exec[w].rowlog) >= 2
        /\ exec[w].rowlog[1].passed
        /\ exec[w].rowlog[1].dto.reservationId \in DOMAIN reservations
        /\ exec[w].dto.reservationId \notin DOMAIN reservations

(***************************************************************************)
(* Report specification: generateReport applied to lists of Error Items of *)
(* every code.  A run has read its file to the end and calls               *)
(* generateReport with a list of at most MaxItems items of the             *)
(* RawReportError type.                                                    *)
(***************************************************************************)
MaxItems == 2

\* items with a field (as the duplicate check and the validation mapping
\* build them) and items with a message (as the per-row catch builds them)
ReportInputItems ==
    {[row |-> r, code |-> c, field |-> f] :
        r \in {0, 2},
        c \in {ReportErrorCode.MISSING_FIELD, ReportErrorCode.INVALID_DATE,
               ReportErrorCode.INVALID_STATUS,
               ReportErrorCode.CHECKOUT_BEFORE_CHECKIN,
               ReportErrorCode.DUPLICATE, ReportErrorCode.UNKNOWN},
        f \in {"checkInDate", "R1"}}
        \cup {[row |-> r, code |-> ReportErrorCode.UNKNOWN, message |-> m] :
                 r \in {0, 2}, m \in {"store error", ""}}

ReportInputs ==
    UNION {[1 .. n -> ReportInputItems] : n \in 0 .. MaxItems}

InitReport ==
    /\ disk = [p \in {"uploads/t1.xlsx"} |-> File(<<<<>>>>)]
    /\ tasks = [t \in {"t1"} |->
                   [filePath |-> "uploads/t1.xlsx",
                    status   |-> TaskStatus.IN_PROGRESS]]
    /\ jobs = [j \in {"t1"} |->
                  [taskId |-> "t1", state |-> "active", attemptsMade |-> 0,
                   owner |-> "w1"]]
    /\ events = Emit(NoRecords, "t1",
                     [type |-> "status", status |-> TaskStatus.IN_PROGRESS])
    /\ \E rawErrors \in ReportInputs :
           exec = [w \in {"w1"} |->
                      [IdleExec EXCEPT !.pc = "generateReport",
                                       !.job = "t1", !.taskId = "t1",
                                       !.filePath = "uploads/t1.xlsx",
                                       !.rawErrors = rawErrors]]
    /\ reservations = NoRecords
    /\ reports = NoRecords
    /\ inbox = <<>>
    /\ creating = ""
    /\ faults = 0
    /\ stalls = 0
    /\ guard = NoGuard
    /\ zone = UTC

NextReport ==
    \/ \E w \in Workers : GenerateReport(w)
    \/ \E w \in Workers : CompleteTask(w)
    \/ \E w \in Workers : Return(w)

SpecReport == InitReport /\ [][NextReport]_vars

\* the reason and the suggestion that belong to an Error Item's code
ReasonOf(item) ==
    CASE item.code = "MISSING_FIELD" ->
           "Missing required field: " \o item.field
      [] item.code = "INVALID_DATE" ->
           "Invalid date format in field: " \o item.field
      [] item.code = "INVALID_STATUS" -> "Invalid reservation status"
      [] item.code = "CHECKOUT_BEFORE_CHECKIN" ->
           "Check-out date is before check-in date"
      [] item.code = "DUPLICATE" ->
           "Duplicate reservation ID: " \o item.field
      [] item.code = "UNKNOWN" ->
           IF "message" \in DOMAIN item THEN item.message
           ELSE "Unknown error"

SuggestionOf(item) ==
    CASE item.code = "MISSING_FIELD" ->
           "Provide value for field \"" \o item.field \o "\""
      [] item.code = "INVALID_DATE" -> "Use YYYY-MM-DD format"
      [] item.code = "INVALID_STATUS" ->
           "Use one of allowed values: oczekujaca, zrealizowana, anulowana"
      [] item.code = "CHECKOUT_BEFORE_CHECKIN" ->
           "Ensure check-out date is after check-in date"
      [] item.code = "DUPLICATE" ->
           "Remove duplicate entry or use unique reservation ID"
      [] item.code = "UNKNOWN" -> "Verify row data"

RetryFaults == 3

RetryFiles ==
    {File(<<Sheet(<<PendingR1>>)>>),
     File(<<Sheet(<<NoGuestR1>>)>>),
     CorruptFile(<<Sheet(<<NoGuestR1>>)>>, 2)}

InitRetry ==
    /\ InitCommon
    /\ jobs = NoRecords
    /\ exec = [w \in {"w1"} |-> IdleExec]
    /\ reservations = NoRecords
    /\ inbox \in {<<file>> : file \in RetryFiles}
    /\ faults = RetryFaults
    /\ stalls = MaxStalls

NextRetry ==
    \/ createTaskSave
    \/ createTaskAdd
    \/ createTaskThrows
    \/ \E w \in Workers, j \in DOMAIN jobs : Deliver(w, j)
    \/ \E w \in Workers : FindTask(w)
    \/ \E w \in Workers : StartTask(w)
    \/ \E w \in Workers : StreamThrows(w)
    \/ \E w \in Workers : SkipHeader(w)
    \/ \E w \in Workers : RowInvalid(w)
    \/ \E w \in Workers : RowValid(w)
    \/ \E w \in Workers : UpsertReservation(w)
    \/ \E w \in Workers : RowThrows(w)
    \/ \E w \in Workers : StreamEnd(w)
    \/ \E w \in Workers : GenerateReport(w)
    \/ \E w \in Workers : CompleteTask(w)
    \/ \E w \in Workers : TryThrows(w)
    \/ \E w \in Workers : CatchReport(w)
    \/ \E w \in Workers : CatchComplete(w)
    \/ \E w \in Workers : ProcessThrows(w)
    \/ \E w \in Workers : Return(w)
    \/ \E w \in Workers : onFailed(w)
    \/ \E j \in DOMAIN jobs : Stall(j)

SpecRetry == InitRetry /\ [][NextRetry]_vars

\* the number of times process() set the task to IN_PROGRESS
Invocations(t) ==
    Cardinality({n \in 1 .. Len(events[t]) :
                    /\ events[t][n].type = "status"
                    /\ events[t][n].status = TaskStatus.IN_PROGRESS})

RetrySteps ==
    \/ createTaskSave
    \/ createTaskAdd
    \/ \E w \in Workers, j \in DOMAIN jobs : Deliver(w, j)
    \/ \E w \in Workers : FindTask(w)
    \/ \E w \in Workers : StartTask(w)
    \/ \E w \in Workers : StreamThrows(w)
    \/ \E w \in Workers : SkipHeader(w)
    \/ \E w \in Workers : RowInvalid(w)
    \/ \E w \in Workers : RowValid(w)
    \/ \E w \in Workers : UpsertReservation(w)
    \/ \E w \in Workers : StreamEnd(w)
    \/ \E w \in Workers : GenerateReport(w)
    \/ \E w \in Workers : CompleteTask(w)
    \/ \E w \in Workers : CatchReport(w)
    \/ \E w \in Workers : CatchComplete(w)
    \/ \E w \in Workers : Return(w)
    \/ \E w \in Workers : onFailed(w)

\* Fair retry specification: the worker goes on with the execution it holds
\* and the queue hands out a waiting job; operations may fail and the lock
\* may expire, but nothing forces them to.
SpecRetryFair == InitRetry /\ [][NextRetry]_vars /\ WF_vars(RetrySteps)

\* C29: a task that is IN_PROGRESS is COMPLETED or FAILED at some later
\* time, also when operations fail and the job's attempts are used up.
C29_InProgressEventuallyTerminal ==
    \A t \in {"t1"} :
        (t \in DOMAIN tasks /\ tasks[t].status = TaskStatus.IN_PROGRESS)
            ~> (t \in DOMAIN tasks /\ tasks[t].status \in Terminal)

\* C30: a task enters the task store with status PENDING and without a job;
\* a job enters the queue only for a task that is already in the task store,
\* still PENDING, and the job carries that task's id; every job of the queue
\* refers to a task of the task store; when saving the task fails, no task
\* is stored and no job is added, then or later.
C30_TaskSavedBeforeEnqueue ==
    [][/\ \A t \in DOMAIN tasks' \ DOMAIN tasks :
              /\ tasks'[t].status = TaskStatus.PENDING
              /\ jobs' = jobs
              /\ \A j \in DOMAIN jobs : jobs[j].taskId # t
       /\ \A j \in DOMAIN jobs' \ DOMAIN jobs :
              /\ jobs'[j].taskId \in DOMAIN tasks
              /\ tasks[jobs'[j].taskId].status = TaskStatus.PENDING
              /\ tasks' = tasks
              /\ jobs'[j] = [taskId |-> creating, state |-> "wait",
                             attemptsMade |-> 0, owner |-> ""]
       /\ \A j \in DOMAIN jobs' : jobs'[j].taskId \in DOMAIN tasks'
       /\ (Len(inbox') < Len(inbox) /\ tasks' = tasks) =>
              /\ jobs' = jobs
              /\ creating' = ""
       /\ creating' # "" =>
              (creating' \in DOMAIN tasks' /\ creating' \notin DOMAIN jobs')
      ]_vars

\* the job of a saved task waits in the queue and the task is still PENDING
C30_Witness ==
    /\ creating = ""
    /\ \E j \in DOMAIN jobs :
           /\ jobs[j] = [taskId |-> j, state |-> "wait", attemptsMade |-> 0,
                         owner |-> ""]
           /\ j \in DOMAIN tasks
           /\ tasks[j].status = TaskStatus.PENDING

\* C31: the step that handles a data row whose non-empty key is already in
\* the seen-set adds exactly one Error Item, the DUPLICATE item with the
\* row's number and key, whatever the row's other fields are; it adds no
\* field-validation item, leaves the seen-set and the store as they are and
\* goes on with the row loop without calling processReservation.
C31_DuplicateCheckExclusive ==
    [][\A w \in Workers :
        (/\ HandlesRow(w)
         /\ exec'[w].dto.reservationId # ""
         /\ exec'[w].dto.reservationId \in exec[w].seenReservationIds) =>
            /\ exec'[w].rawErrors
                   = Append(exec[w].rawErrors,
                            [row   |-> exec'[w].rowNumber,
                             code  |-> ReportErrorCode.DUPLICATE,
                             field |-> exec'[w].dto.reservationId])
            /\ ~exec'[w].rowlog[Len(exec'[w].rowlog)].passed
            /\ exec'[w].pc = "stream"
            /\ exec'[w].seenReservationIds = exec[w].seenReservationIds
            /\ reservations' = reservations]_vars

\* the second row repeats the key R1 of the first and fails field
\* validation in several fields: it has the DUPLICATE item and nothing else
C31_Witness ==
    \E w \in Workers :
        /\ Len(exec[w].rowlog) = 2
        /\ exec[w].rowlog[1].passed
        /\ exec[w].rowlog[2].dto.reservationId = "R1"
        /\ Len(validate(exec[w].rowlog[2].dto)) >= 2
        /\ exec[w].rawErrors = <<DuplicateItem(exec[w].rowlog[2])>>
        /\ exec[w].seenReservationIds = {"R1"}

\* C32: the key of a row that passed validation enters the seen-set in the
\* step that handles the row, before its store operation starts, and no
\* outcome of the store operation takes it out again: after every step the
\* seen-set is the set of keys of the rows that passed validation so far.
\* A store operation that throws adds one UNKNOWN item with the row's
\* number, writes nothing and returns to the row loop; a lookup that finds
\* no record writes nothing.  Every later row with a seen key gets the
\* DUPLICATE item and is not passed on, and a key enters the store only by
\* the upsert of the row that passed with it.
C32_SeenSetIsPassedKeys ==
    [][\A w \in Workers :
        /\ exec'[w].seenReservationIds
               = {exec'[w].rowlog[i].dto.reservationId :
                     i \in {n \in 1 .. Len(exec'[w].rowlog) :
                                exec'[w].rowlog[n].passed}}
        /\ (HandlesRow(w)
                /\ exec'[w].rowlog[Len(exec'[w].rowlog)].passed) =>
               /\ exec'[w].dto.reservationId \in exec'[w].seenReservationIds
               /\ exec'[w].dto.reservationId
                      \notin exec[w].seenReservationIds
               /\ exec'[w].pc \in StorePcs
               /\ reservations' = reservations
        /\ (exec[w].pc \in StorePcs /\ exec'[w] # exec[w]) =>
               /\ exec'[w].seenReservationIds = exec[w].seenReservationIds
               /\ faults' < faults =>
                      /\ exec'[w].rawErrors
                             = Append(exec[w].rawErrors,
                                      [row     |-> exec[w].rowNumber,
                                       code    |-> ReportErrorCode.UNKNOWN,
                                       message |-> "store error"])
                      /\ reservations' = reservations
                      /\ exec'[w].pc = "stream"
               /\ (exec[w].pc = "findByReservationId"
                      /\ exec[w].dto.reservationId
                             \notin DOMAIN reservations) =>
                      reservations' = reservations
               /\ \A k \in DOMAIN reservations' \ DOMAIN reservations :
                      /\ exec[w].pc = "upsert"
                      /\ k = exec[w].dto.reservationId
                      /\ exec[w].rowlog[Len(exec[w].rowlog)].passed
        /\ \A j \in 1 .. Len(exec'[w].rowlog) :
               (exec'[w].rowlog[j].dto.reservationId
                       \in {exec'[w].rowlog[i].dto.reservationId :
                               i \in {n \in 1 .. j - 1 :
                                          exec'[w].rowlog[n].passed}}) =>
                   /\ ~exec'[w].rowlog[j].passed
                   /\ RowErrors(exec'[w], j)
                          = <<DuplicateItem(exec'[w].rowlog[j])>>]_vars

\* the store operation of the first row with key R1 threw, the following
\* rows with R1 are duplicates, and R1 has no record
C32_Witness ==
    \E w \in Workers :
        /\ Len(exec[w].rowlog) >= 3
        /\ exec[w].rowlog[1].passed
        /\ exec[w].rowlog[1].dto.reservationId = "R1"
        /\ Len(RowErrors(exec[w], 1)) = 1
        /\ RowErrors(exec[w], 1)[1].code = ReportErrorCode.UNKNOWN
        /\ RowErrors(exec[w], 1)[1].row = exec[w].rowlog[1].number
        /\ RowErrors(exec[w], 2) = <<DuplicateItem(exec[w].rowlog[2])>>
        /\ RowErrors(exec[w], 3) = <<DuplicateItem(exec[w].rowlog[3])>>
        /\ "R1" \in exec[w].seenReservationIds
        /\ "R1" \notin DOMAIN reservations

\* the first row, cancelled with key R1, found no record and was skipped;
\* the next row with R1 is a duplicate and R1 has no record
C32_WitnessSkipped ==
    \E w \in Workers :
        /\ Len(exec[w].rowlog) >= 2
        /\ exec[w].rowlog[1].passed
        /\ exec[w].rowlog[1].dto.status = ReservationStatus.CANCELLED
        /\ RowErrors(exec[w], 1) = <<>>
        /\ RowErrors(exec[w], 2) = <<DuplicateItem(exec[w].rowlog[2])>>
        /\ "R1" \notin DOMAIN reservations

(***************************************************************************)
(* Event specification: one worker slot, one upload of a file long enough  *)
(* for a progress event (read to its end, or breaking after the hundredth  *)
(* data row) or of a one-row file, and MaxFaults failing operations.       *)
(***************************************************************************)
EventFiles ==
    {File(<<LongSheet(PendingR1, PROGRESS_EMIT_INTERVAL)>>),
     CorruptFile(<<LongSheet(PendingR1, PROGRESS_EMIT_INTERVAL + 1)>>,
                 PROGRESS_EMIT_INTERVAL + 1),
     File(<<Sheet(<<NoKey>>)>>),
     File(<<Sheet(<<PendingR2>>)>>)}

InitEvents ==
    /\ InitCommon
    /\ jobs = NoRecords
    /\ exec = [w \in {"w1"} |-> IdleExec]
    /\ reservations = NoRecords
    /\ inbox \in {<<file>> : file \in EventFiles}
    /\ faults = MaxFaults
    /\ stalls = 0

NextEvents ==
    \/ createTaskSave
    \/ createTaskAdd
    \/ \E w \in Workers, j \in DOMAIN jobs : Deliver(w, j)
    \/ \E w \in Workers : FindTask(w)
    \/ \E w \in Workers : StartTask(w)
    \/ \E w \in Workers : StreamThrows(w)
    \/ \E w \in Workers : SkipHeader(w)
    \/ \E w \in Workers : RowDuplicate(w)
    \/ \E w \in Workers : RowInvalid(w)
    \/ \E w \in Workers : RowValid(w)
    \/ \E w \in Workers : UpsertReservation(w)
    \/ \E w \in Workers : RowThrows(w)
    \/ \E w \in Workers : StreamEnd(w)
    \/ \E w \in Workers : GenerateReport(w)
    \/ \E w \in Workers : CompleteTask(w)
    \/ \E w \in Workers : TryThrows(w)
    \/ \E w \in Workers : CatchReport(w)
    \/ \E w \in Workers : CatchComplete(w)
    \/ \E w \in Workers : ProcessThrows(w)
    \/ \E w \in Workers : Return(w)
    \/ \E w \in Workers : onFailed(w)

SpecEvents == InitEvents /\ [][NextEvents]_vars

\* the events that a step added for task t
Emitted(t) ==
    SubSeq(EventsOf(events', t), Len(EventsOf(events, t)) + 1,
           Len(EventsOf(events', t)))

\* C33: an execution emits nothing before the step that sets its task to
\* IN_PROGRESS; that step emits the IN_PROGRESS status event; the steps of
\* the row loop emit progress events only; an execution that found its task
\* returns normally only by a step that updates the task to COMPLETED or
\* FAILED with the execution's report reference and emits the one status
\* event with the same status and reference, and after that step the
\* execution emits nothing more.
C33_OneTerminalEvent ==
    [][\A w \in Workers :
        exec'[w] # exec[w] =>
            /\ \A t \in DOMAIN events' : t # exec'[w].taskId /\ t # exec[w].taskId
                   => EventsOf(events, t) = events'[t]
            /\ exec[w].pc \in {"idle", "findById", "returned", "thrown",
                                "generateReport", "catchReport"} =>
                   events' = events
            /\ exec[w].pc = "updateStatus" =>
                   Emitted(exec[w].taskId)
                       = IF exec'[w].pc = "stream"
                         THEN <<[type |-> "status",
                                 status |-> TaskStatus.IN_PROGRESS]>>
                         ELSE <<>>
            /\ exec[w].pc \in {"stream"} \cup StorePcs =>
                   \A n \in 1 .. Len(Emitted(exec[w].taskId)) :
                       Emitted(exec[w].taskId)[n].type = "progress"
            /\ exec[w].pc \in {"completeTask", "catchComplete"} =>
                   IF exec'[w].pc = "returned"
                   THEN /\ Emitted(exec[w].taskId)
                              = <<[type |-> "status",
                                   status |-> tasks'[exec[w].taskId].status,
                                   reportPath |->
                                       tasks'[exec[w].taskId].reportPath]>>
                        /\ tasks'[exec[w].taskId].status
                               = IF exec[w].pc = "completeTask"
                                 THEN TaskStatus.COMPLETED
                                 ELSE TaskStatus.FAILED
                        /\ tasks'[exec[w].taskId].reportPath
                               = exec[w].reportPath
                   ELSE events' = events /\ tasks' = tasks
            /\ (exec'[w].pc = "returned" /\ exec[w].filePath # "") =>
                   exec[w].pc \in {"completeTask", "catchComplete"}]_vars

\* an execution has returned after a progress event: the events of its task
\* are IN_PROGRESS, the progress event at row 100, and the FAILED status
\* event with the report reference stored on the task
C33_Witness ==
    \E w \in Workers :
        /\ exec[w].pc = "returned"
        /\ exec[w].taskId \in DOMAIN events
        /\ Len(events[exec[w].taskId]) = 3
        /\ events[exec[w].taskId][1]
               = [type |-> "status", status |-> TaskStatus.IN_PROGRESS]
        /\ events[exec[w].taskId][2].type = "progress"
        /\ events[exec[w].taskId][3]
               = [type |-> "status", status |-> TaskStatus.FAILED,
                  reportPath |-> tasks[exec[w].taskId].reportPath]
        /\ tasks[exec[w].taskId].status = TaskStatus.FAILED
        /\ tasks[exec[w].taskId].reportPath # ""

\* C34: the step that reads the first row of a worksheet changes nothing but
\* the position in the file: the row counter, the Error Item list, the
\* seen-set, the store, the reports and the events stay as they are, and no
\* handled row ever is a first row.  The rows handled are counted by one
\* counter over all worksheets, and a non-empty key that passed in one
\* worksheet makes a row with that key in a later worksheet a DUPLICATE.
C34_HeaderRowsSkipped ==
    [][\A w \in Workers :
        /\ (AtRow(w) /\ Pos(w)[2] = 1 /\ exec'[w] # exec[w]) =>
               /\ exec'[w] = [exec[w] EXCEPT !.ws = Pos(w)[1], !.rn = 1,
                                             !.nread = exec[w].nread + 1]
               /\ reservations' = reservations
               /\ reports' = reports
               /\ events' = events
               /\ tasks' = tasks
        /\ HandlesRow(w) =>
               /\ exec'[w].rowNumber > 1
               /\ exec'[w].processedRows = exec[w].processedRows + 1
        /\ exec'[w].processedRows = Len(exec'[w].rowlog)
        /\ \A i, j \in 1 .. Len(exec'[w].rowlog) :
               (/\ exec'[w].rowlog[i].ws < exec'[w].rowlog[j].ws
                /\ exec'[w].rowlog[i].passed
                /\ exec'[w].rowlog[i].dto.reservationId
                       = exec'[w].rowlog[j].dto.reservationId) =>
                   /\ ~exec'[w].rowlog[j].passed
                   /\ RowErrors(exec'[w], j)
                          = <<DuplicateItem(exec'[w].rowlog[j])>>]_vars

\* a file of two worksheets was read to its end: two rows counted, the row
\* of the first worksheet passed with R1, the row of the second worksheet
\* is a duplicate of it
C34_Witness ==
    \E w \in Workers :
        /\ exec[w].pc = "returned"
        /\ exec[w].processedRows = 2
        /\ Len(disk[exec[w].filePath].sheets) = 2
        /\ exec[w].rowlog[1].ws = 1 /\ exec[w].rowlog[1].number = 2
        /\ exec[w].rowlog[2].ws = 2 /\ exec[w].rowlog[2].number = 2
        /\ exec[w].rowlog[1].passed
        /\ exec[w].seenReservationIds = {"R1"}
        /\ exec[w].rawErrors = <<DuplicateItem(exec[w].rowlog[2])>>

\* the store operation of the i-th handled row of execution e is over and
\* did not throw
StoreStepDone(e, i) ==
    /\ i < Len(e.rowlog) \/ e.pc \notin StorePcs
    /\ RowErrors(e, i) = <<>>

\* C35: what the store operation of a row wrote stays in the store for the
\* rest of the execution, whatever happens afterwards (a later row with
\* errors, a stream failure, the task ending FAILED or COMPLETED with a
\* report): for every passed row whose store operation ended well, a pending
\* row's key holds the record with the row's values and a cancelled or
\* completed row's key, when it has a record, holds the row's status.
C35_NoRollback ==
    \A w \in Workers :
        \A i \in 1 .. Len(exec[w].rowlog) :
            (exec[w].rowlog[i].passed /\ StoreStepDone(exec[w], i)) =>
                IF isCancelledOrCompleted(exec[w].rowlog[i].dto)
                THEN exec[w].rowlog[i].dto.reservationId
                         \in DOMAIN reservations =>
                     reservations[exec[w].rowlog[i].dto.reservationId].status
                         = exec[w].rowlog[i].dto.status
                ELSE /\ exec[w].rowlog[i].dto.reservationId
                            \in DOMAIN reservations
                     /\ reservations[exec[w].rowlog[i].dto.reservationId]
                            = upsert(NoRecords, exec[w].rowlog[i].dto)
                                  [exec[w].rowlog[i].dto.reservationId]

\* the stream failed after the first row was persisted: the task is FAILED
\* with a report and the record of the first row is in the store
C35_Witness ==
    \E w \in Workers :
        /\ exec[w].pc = "returned"
        /\ StreamFailed(w)
        /\ tasks[exec[w].taskId].status = TaskStatus.FAILED
        /\ tasks[exec[w].taskId].reportPath # ""
        /\ Len(exec[w].rowlog) >= 1
        /\ exec[w].rowlog[1].passed
        /\ exec[w].rowlog[1].dto.status = ReservationStatus.PENDING
        /\ reservations[exec[w].rowlog[1].dto.reservationId].guestName
               = exec[w].rowlog[1].dto.guestName

\* the program positions of an execution before its IN_PROGRESS update has
\* been made
BeforeStart == {"idle", "findById", "updateStatus"}

\* C36: a step of an execution that has not yet set its task to IN_PROGRESS
\* leaves the reservation store and the reports as they are, emits no
\* progress event and handles no row; the execution enters the row loop
\* only by the step that stores IN_PROGRESS on the task; when that update
\* throws, process() throws with task, store, reports and events unchanged,
\* and the failed attempt is handed back to the queue without touching them.
C36_NothingBeforeInProgress ==
    [][\A w \in Workers :
        /\ (exec[w].pc \in BeforeStart /\ exec'[w] # exec[w]) =>
               /\ reservations' = reservations
               /\ reports' = reports
               /\ exec'[w].rowlog = <<>>
               /\ exec'[w].processedRows = 0
               /\ exec'[w].rawErrors = <<>>
               /\ exec'[w].pc \notin StorePcs
               /\ \A n \in 1 .. Len(Emitted(exec'[w].taskId)) :
                      Emitted(exec'[w].taskId)[n].type # "progress"
               /\ exec'[w].pc = "stream" =>
                      /\ exec[w].pc = "updateStatus"
                      /\ tasks'[exec[w].taskId].status
                             = TaskStatus.IN_PROGRESS
               /\ exec'[w].pc = "thrown" =>
                      /\ tasks' = tasks
                      /\ events' = events
        /\ (exec[w].pc \notin {"stream"} \cup StorePcs
                /\ exec'[w].pc \in {"stream"} \cup StorePcs) =>
               exec[w].pc = "updateStatus"
        /\ (exec[w].pc = "thrown" /\ exec'[w] # exec[w]) =>
               /\ reservations' = reservations
               /\ reports' = reports
               /\ tasks' = tasks
               /\ events' = events]_vars

\* the IN_PROGRESS update of an execution threw: process() has thrown, the
\* task is still PENDING, the store and the reports are empty, no event
C36_Witness ==
    \E w \in Workers :
        /\ exec[w].pc = "thrown"
        /\ exec[w].filePath # ""
        /\ exec[w].rowlog = <<>>
        /\ tasks[exec[w].taskId].status = TaskStatus.PENDING
        /\ reservations = NoRecords
        /\ reports = NoRecords
        /\ exec[w].taskId \notin DOMAIN events

\* C37: every handled row with an empty reservation key is not passed to
\* processReservation, has no DUPLICATE item, and has exactly one Error Item
\* for the field reservationId, which says that the field is missing; the
\* empty key is never in the seen-set, however many such rows a file has.
C37_EmptyKeyNeverDuplicate ==
    \A w \in Workers :
        /\ "" \notin exec[w].seenReservationIds
        /\ \A j \in 1 .. Len(exec[w].rowlog) :
               exec[w].rowlog[j].dto.reservationId = "" =>
                   /\ ~exec[w].rowlog[j].passed
                   /\ \A n \in 1 .. Len(RowErrors(exec[w], j)) :
                          RowErrors(exec[w], j)[n].code
                              # ReportErrorCode.DUPLICATE
                   /\ Cardinality(
                          {n \in 1 .. Len(RowErrors(exec[w], j)) :
                              RowErrors(exec[w], j)[n]
                                  = [row   |-> exec[w].rowlog[j].number,
                                     code  |-> ReportErrorCode.MISSING_FIELD,
                                     field |-> "reservationId"]}) = 1
                   /\ Cardinality(
                          {n \in 1 .. Len(RowErrors(exec[w], j)) :
                              RowErrors(exec[w], j)[n].field
                                  = "reservationId"}) = 1

\* three rows without a key were handled: three items for reservationId, an
\* empty seen-set and an empty store
C37_Witness ==
    \E w \in Workers :
        /\ exec[w].pc = "returned"
        /\ Len(exec[w].rowlog) = 3
        /\ \A j \in 1 .. 3 : exec[w].rowlog[j].dto.reservationId = ""
        /\ Len(exec[w].rawErrors) = 3
        /\ \A n \in 1 .. 3 : exec[w].rawErrors[n].field = "reservationId"
        /\ exec[w].seenReservationIds = {}
        /\ reservations = NoRecords

(***************************************************************************)
(* The guard on its own: a configured key and the requests it decides.     *)
(***************************************************************************)
MaxRequests == 2

ApiKeys == {Undefined, Str(""), Str("k")}
HeaderKeys == {Undefined, Str(""), Str("k"), Str("x"), Arr("k")}
HandshakeKeys == {Undefined, Str(""), Str("k"), Str("x"), Arr("k")}

HttpRequests ==
    {[type |-> "http", header |-> h, auth |-> Undefined, query |-> Undefined]
        : h \in HeaderKeys}
WsRequests ==
    {[type |-> "ws", header |-> Undefined, auth |-> a, query |-> q]
        : a \in HandshakeKeys, q \in HandshakeKeys}

\* the guard decides one request
Activate(request) ==
    /\ Len(guard.decided) < MaxRequests
    /\ guard' = [guard EXCEPT !.decided =
                    Append(@, [request |-> request,
                               outcome |->
                                   canActivate(guard.API_KEY, request)])]
    /\ UNCHANGED <<tasks, jobs, exec, reservations, reports, events, disk,
                   inbox, creating, faults, stalls, zone>>

InitGuard ==
    /\ tasks = NoRecords
    /\ jobs = NoRecords
    /\ exec = [w \in {"w1"} |-> IdleExec]
    /\ reservations = NoRecords
    /\ reports = NoRecords
    /\ events = NoRecords
    /\ disk = NoRecords
    /\ inbox = <<>>
    /\ creating = ""
    /\ faults = 0
    /\ stalls = 0
    /\ guard \in {[API_KEY |-> key, decided |-> <<>>] : key \in ApiKeys}
    /\ zone = UTC

NextGuard ==
    \/ \E request \in HttpRequests : Activate(request)
    \/ \E request \in WsRequests : Activate(request)

SpecGuard == InitGuard /\ [][NextGuard]_vars

MissingMessages ==
    {"Missing x-api-key header", "Missing API key in WebSocket handshake"}

\* the key a request provides when only an undefined auth.apiKey gives way
\* to the query parameter
ProvidedIfDefined(request) ==
    IF request.type = "ws"
    THEN IF request.auth = Undefined THEN request.query ELSE request.auth
    ELSE request.header

\* the key a request provides when an undefined or empty auth.apiKey gives
\* way to the query parameter
ProvidedIfNonEmpty(request) ==
    IF request.type = "ws"
    THEN IF request.auth \in {Undefined, Str("")}
         THEN request.query ELSE request.auth
    ELSE request.header

\* C38 as stated: with no API_KEY configured every request returns true; with
\* one configured a request returns true exactly when the key it provides
\* (the x-api-key header; auth.apiKey, or the query apiKey when auth.apiKey
\* is absent) equals it, and it otherwise throws 'Missing ...' when no key
\* was provided and 'Invalid API key' when another key was provided.
C38_GuardAsStated ==
    \A i \in 1..Len(guard.decided) :
        LET request == guard.decided[i].request
            outcome == guard.decided[i].outcome
        IN  IF Falsy(guard.API_KEY)
            THEN outcome = Returns(TRUE)
            ELSE /\ outcome.returns
                        <=> ProvidedIfDefined(request) = guard.API_KEY
                 /\ ~outcome.returns =>
                        IF ProvidedIfDefined(request) = Undefined
                        THEN outcome.throws \in MissingMessages
                        ELSE outcome.throws = "Invalid API key"

\* C38: with no API_KEY (or an empty one) configured every request returns
\* true; with one configured a request returns true exactly when the key it
\* provides (the x-api-key header; auth.apiKey, or the query apiKey when
\* auth.apiKey is absent or empty) equals it, and it otherwise throws
\* 'Missing ...' when the provided key is absent or empty and 'Invalid API
\* key' when another key was provided.
C38_GuardNonEmptyKeys ==
    \A i \in 1..Len(guard.decided) :
        LET request == guard.decided[i].request
            outcome == guard.decided[i].outcome
        IN  IF Falsy(guard.API_KEY)
            THEN outcome = Returns(TRUE)
            ELSE /\ outcome.returns
                        <=> ProvidedIfNonEmpty(request) = guard.API_KEY
                 /\ ~outcome.returns =>
                        IF ProvidedIfNonEmpty(request) \in {Undefined, Str("")}
                        THEN outcome.throws =
                                 IF request.type = "ws"
                                 THEN "Missing API key in WebSocket handshake"
                                 ELSE "Missing x-api-key header"
                        ELSE outcome.throws = "Invalid API key"

\* a configured guard has admitted a handshake whose auth.apiKey is empty and
\* whose query apiKey is the configured key, and has rejected a request with
\* another key and one with no key
C38_Witness ==
    /\ guard.API_KEY = Str("k")
    /\ Len(guard.decided) = MaxRequests
    /\ \E i \in 1..Len(guard.decided) :
           /\ guard.decided[i].request.type = "ws"
           /\ guard.decided[i].request.auth = Str("")
           /\ guard.decided[i].request.query = Str("k")
           /\ guard.decided[i].outcome = Returns(TRUE)
    /\ \E i \in 1..Len(guard.decided) :
           guard.decided[i].outcome.throws = "Invalid API key"

(***************************************************************************)
(* Date cells: one upload with one data row whose check-in cell is a       *)
(* number, a Date or another shape, processed in one of several time zones.*)
(***************************************************************************)
\* Asia/Jakarta: +07:07 (Batavia mean time) on 1899-12-30, +07:00 since 1964
Jakarta == [before |-> 427, after |-> 420, since |-> 23377 * msPerDay]
\* America/Bogota: -04:56 (Bogota mean time) on 1899-12-30, -05:00 since 1914
Bogota == [before |-> 0 - 296, after |-> 0 - 300, since |-> 5441 * msPerDay]
\* Asia/Tokyo: +09:00 throughout
Tokyo == [before |-> 540, after |-> 540, since |-> 0]

Zones == {UTC, Jakarta, Bogota, Tokyo}

\* check-in cells: the days 2024-05-02, 2024-05-03 and 0999-12-31 (328717
\* days before 1899-12-30) as numbers and as Dates, and three other shapes
DateInCells == {NumCell(45414), NumCell(45415), NumCell(0 - 328717),
                DateCell(45414 * msPerDay), DateCell((0 - 328717) * msPerDay),
                NullCell, ObjCell, BoolCell(TRUE)}

DateFiles ==
    {File(<<Sheet(<<
        <<Text("R1"), Text("Jan Nowak"), Text(ReservationStatus.PENDING),
          checkIn, NumCell(45419)>> >>)>>) : checkIn \in DateInCells}

InitDates ==
    /\ tasks = NoRecords
    /\ jobs = NoRecords
    /\ exec = [w \in {"w1"} |-> IdleExec]
    /\ reservations = NoRecords
    /\ reports = NoRecords
    /\ events = NoRecords
    /\ disk = NoRecords
    /\ inbox \in {<<file>> : file \in DateFiles}
    /\ creating = ""
    /\ faults = 0
    /\ stalls = 0
    /\ guard = NoGuard
    /\ zone \in Zones

NextDates ==
    \/ createTaskSave
    \/ createTaskAdd
    \/ \E w \in Workers, j \in DOMAIN jobs : Deliver(w, j)
    \/ \E w \in Workers : FindTask(w)
    \/ \E w \in Workers : StartTask(w)
    \/ \E w \in Workers : SkipHeader(w)
    \/ \E w \in Workers : RowInvalid(w)
    \/ \E w \in Workers : RowValid(w)
    \/ \E w \in Workers : UpsertReservation(w)
    \/ \E w \in Workers : StreamEnd(w)
    \/ \E w \in Workers : GenerateReport(w)
    \/ \E w \in Workers : CompleteTask(w)
    \/ \E w \in Workers : Return(w)

SpecDates == InitDates /\ [][NextDates]_vars

PadStart4(v) ==
    IF v < 10 THEN "000" \o ToString(v)
    ELSE IF v < 100 THEN "00" \o ToString(v)
    ELSE IF v < 1000 THEN "0" \o ToString(v)
    ELSE ToString(v)

\* YYYY-MM-DD for the civil date <<y, m, d>>
YmdOfCivil(c) ==
    PadStart4(c[1]) \o "-" \o PadStart2(c[2]) \o "-" \o PadStart2(c[3])

\* the YYYY-MM-DD calendar date that lies n days after 1899-12-30
DaysAfterEpoch(n) == YmdOfCivil(CivilOfDay(n + EpochShift))

\* out is a zero-padded 10-character YYYY-MM-DD string naming a calendar
\* day on which the instant date falls somewhere on earth
IsYmdOf(out, date) ==
    /\ Len(out) = 10
    /\ \E d \in {0 - 1, 0, 1} :
           out = DaysAfterEpoch((date \div msPerDay) + d)

\* the check-in cell of the i-th row a worker handled
CheckInCell(w, i) ==
    disk[exec[w].filePath].sheets[exec[w].rowlog[i].ws]
        [exec[w].rowlog[i].number][COLUMN_MAP.check_in_date]

\* C39: for every handled row, normalizeDate has mapped a numeric check-in
\* cell n to the YYYY-MM-DD calendar date n days after 1899-12-30, a null
\* cell and a cell of an unsupported shape to the empty string, and a Date
\* cell to a zero-padded 10-character YYYY-MM-DD string.
C39_NormalizeDate ==
    \A w \in Workers :
        \A i \in 1 .. Len(exec[w].rowlog) :
            /\ CheckInCell(w, i).k = "number" =>
                   exec[w].rowlog[i].dto.checkInDate
                       = DaysAfterEpoch(CheckInCell(w, i).n)
            /\ CheckInCell(w, i).k \in {"null", "object", "boolean"} =>
                   exec[w].rowlog[i].dto.checkInDate = ""
            /\ CheckInCell(w, i).k = "date" =>
                   IsYmdOf(exec[w].rowlog[i].dto.checkInDate,
                           CheckInCell(w, i).n)

\* C39 in a process whose time zone is UTC and for days of the years
\* 1000 .. 9999: the statement holds.
C39_NormalizeDateUtcInRange ==
    \A w \in Workers :
        \A i \in 1 .. Len(exec[w].rowlog) :
            (zone = UTC /\ CheckInCell(w, i).n >= 0) =>
                /\ CheckInCell(w, i).k = "number" =>
                       exec[w].rowlog[i].dto.checkInDate
                           = DaysAfterEpoch(CheckInCell(w, i).n)
                /\ CheckInCell(w, i).k \in {"null", "object", "boolean"} =>
                       exec[w].rowlog[i].dto.checkInDate = ""
                /\ CheckInCell(w, i).k = "date" =>
                       IsYmdOf(exec[w].rowlog[i].dto.checkInDate,
                               CheckInCell(w, i).n)

\* the serial 45414 (2024-05-02) was stored as 2024-05-01
C39_WrongDayStored ==
    /\ zone = Jakarta
    /\ "R1" \in DOMAIN reservations
    /\ reservations["R1"].checkInDate = NewDate("2024-05-01")
    /\ \E w \in Workers :
           /\ Len(exec[w].rowlog) = 1
           /\ CheckInCell(w, 1) = NumCell(45414)
           /\ exec[w].rowlog[1].dto.checkInDate = "2024-05-01"
====
